---- MODULE Spec2Model ----
(***************************************************************************)
(* HARMORYC episodic-memory test battery (src/app.py).                     *)
(*                                                                         *)
(* The model covers the ExperimentApp session driver (on_start, on_stop,   *)
(* _timer_tick, _go_to_next_task, _show_task, _on_choice,                  *)
(* _finalize_current_task, _jump_to_question), the trial builder           *)
(* (_build_tasks, _pick_balanced_trials), the response evaluator           *)
(* (_evaluate_correctness, _annotate_record_metrics) and the               *)
(* VRWebSocketServer listener.                                             *)
(*                                                                         *)
(* Encoding notes                                                          *)
(*  - Python None is the string "None"; Optional[bool] values are the      *)
(*    strings "True" / "False" / "None" so that they compare with None.    *)
(*  - time.perf_counter() differences are kept instead of absolute         *)
(*    readings: task_elapsed_ms is (perf_counter() - task_start_perf)*1000 *)
(*    and NoPerf when task_start_perf is None (likewise for the            *)
(*    intermission marker).  The clock is advanced by the Advance action.  *)
(*  - rendering-only fields (name, image, started_at strings) are omitted. *)
(***************************************************************************)
EXTENDS Integers, Sequences, FiniteSets, TLC

\* ---------------------------------------------------------------------
\* Bounds of the model
\* ---------------------------------------------------------------------
MaxRecords == 2      \* no record is appended once the log holds this many
MaxSessions == 1     \* uuid4() is drawn at most this many times
ClockStep == 10000   \* the clock advances in steps of this many ms

\* ---------------------------------------------------------------------
\* Program constants
\* ---------------------------------------------------------------------
STEP1_DURATION_MS == 10000
STEP2_DURATION_MS == 20000
STEP3_DURATION_MS == 10000
STEP4_DURATION_MS == 10000
RAPPEL_IMMEDIAT_DURATION_MS == 10000
INTER_DELAY_MS == 3000
RANDOM_SEED == "HARMORYC_V2"
ROOM_GRID_ORDER ==
    <<"room8", "room5", "room3", "room7", "room4", "room6", "room10", "room9", "room2", "room1">>

None == "None"
NoPerf == -1         \* task_start_perf / intermission_start_perf is None
NoOrder == 0         \* correct_order is None
TargetEach == 5      \* _pick_balanced_trials(target_each=5)

STAGES == {"I", "IIA", "IIB", "III", "IV", "V", "RI", "RI_END"}

\* ---------------------------------------------------------------------
\* Python helpers
\* ---------------------------------------------------------------------
\* bool(x) for an Optional[bool] value
PyBool(x) == x = "True"
\* the Optional[bool] holding the boolean b
OptBool(b) == IF b THEN "True" ELSE "False"

Numerals == <<"1", "2", "3", "4", "5", "6", "7", "8", "9", "10">>

\* str(correct_order)
Str(n) == IF n = NoOrder THEN "None" ELSE IF n \in DOMAIN Numerals THEN Numerals[n] ELSE "?"

\* int(response); 0 when int() raises
ParseInt(s) == IF \E i \in DOMAIN Numerals : Numerals[i] = s
               THEN CHOOSE i \in DOMAIN Numerals : Numerals[i] = s
               ELSE 0

\* mutant: the signed difference
MutAbsSigned(x) == x

Abs(x) == IF x < 0 THEN -x ELSE x
Min(a, b) == IF a < b THEN a ELSE b
Max(a, b) == IF a > b THEN a ELSE b

Range(s) == {s[i] : i \in DOMAIN s}

\* the permutations of 1..n, as sequences
Perms(n) == {p \in [1..n -> 1..n] : \A i, j \in 1..n : p[i] = p[j] => i = j}

\* the list s after a random.shuffle whose outcome is the permutation p
Shuffled(s, p) == [i \in 1..Len(s) |-> s[p[i]]]

\* [x for x in s if Test(x)]
RECURSIVE FilterSeq(_, _)
FilterSeq(s, keep) ==
    IF s = <<>> THEN <<>>
    ELSE IF Head(s) \in keep THEN <<Head(s)>> \o FilterSeq(Tail(s), keep)
    ELSE FilterSeq(Tail(s), keep)

\* s[:n]
Take(s, n) == SubSeq(s, 1, Min(n, Len(s)))

\* list.index(x) + 1, or NoOrder when x is not in the list
IndexOf(s, x) == IF \E i \in DOMAIN s : s[i] = x
                 THEN CHOOSE i \in DOMAIN s : s[i] = x /\ \A j \in 1..(i-1) : s[j] # x
                 ELSE NoOrder

\* s[at:at] = ins
InsertAt(s, at, ins) == SubSeq(s, 1, at) \o ins \o SubSeq(s, at + 1, Len(s))

\* s[k:] + s[:k]
Rotated(s, k) == SubSeq(s, k + 1, Len(s)) \o SubSeq(s, 1, k)


\* ---------------------------------------------------------------------
\* Asset catalog (result of _load_v2_assets): inputs of the model
\* ---------------------------------------------------------------------
RoomIds == <<"room1", "room2", "room3", "room4", "room5", "room6", "room7", "room8", "room9", "room10">>
FamiliarIds == <<"OF1", "OF2", "OF3", "OF4", "OF5", "OF6", "OF7", "OF8", "OF9", "OF10">>
NewIds == <<"NO1", "NO2", "NO3", "NO4", "NO5", "NO6", "NO7", "NO8", "NO9", "NO10">>

\* rooms.append({"id": f"room{room_index}", ..., "timing": "jour" if room_index <= 5 else "nuit"})
Room(i) == [id |-> RoomIds[i], timing |-> IF i <= 5 THEN "jour" ELSE "nuit"]

\* familiar_objects.append({"id": f"OF{i}", "is_familiar": True, "room_id": f"room{i}", ...})
FamiliarObject(i) == [id |-> FamiliarIds[i], is_familiar |-> TRUE, room_id |-> RoomIds[i]]

\* new_objects.append({"id": f"NO{i}", "is_familiar": False, "room_id": None, ...})
NewObject(i) == [id |-> NewIds[i], is_familiar |-> FALSE, room_id |-> None]

RiCorrectIds == <<"ri_correct_1", "ri_correct_2", "ri_correct_3", "ri_correct_4", "ri_correct_5", "ri_correct_6">>
RiIncorrectIds == <<"ri_incorrect_1", "ri_incorrect_2", "ri_incorrect_3", "ri_incorrect_4", "ri_incorrect_5", "ri_incorrect_6">>
Step5CorrectIds == <<"correct_1", "correct_2", "correct_3", "correct_4", "correct_5", "correct_6">>
Step5IncorrectIds == <<"incorrect_1", "incorrect_2", "incorrect_3", "incorrect_4", "incorrect_5", "incorrect_6">>

\* a composite-scene trial {"id": ..., "image": ..., "is_correct": ...}
Trial(id, ok) == [id |-> id, is_correct |-> ok]

\* the catalog with nr rooms, nf familiar and nn new objects, and for each
\* scene pool nc ground-truth-correct then ni incorrect trials
Catalog(nr, nf, nn, nc, ni) ==
    [experiment_name |-> "HARMORYC_V2",
     rooms |-> [i \in 1..nr |-> Room(i)],
     familiar_objects |-> [i \in 1..nf |-> FamiliarObject(i)],
     new_objects |-> [i \in 1..nn |-> NewObject(i)],
     rappel_immediat_trials |->
        [i \in 1..nc |-> Trial(RiCorrectIds[i], TRUE)] \o [i \in 1..ni |-> Trial(RiIncorrectIds[i], FALSE)],
     step5_trials |->
        [i \in 1..nc |-> Trial(Step5CorrectIds[i], TRUE)] \o [i \in 1..ni |-> Trial(Step5IncorrectIds[i], FALSE)]]

\* self.data = {} before the first session: every .get(...) or [] is empty
EmptyData ==
    [experiment_name |-> "MemoireEpisodique", rooms |-> <<>>, familiar_objects |-> <<>>,
     new_objects |-> <<>>, rappel_immediat_trials |-> <<>>, step5_trials |-> <<>>]

\* the assets found on disk in the session model: one room, one object
\* (familiar or new) and one correct scene per pool
SessionAssets == {Catalog(1, 1, 0, 1, 0), Catalog(1, 0, 1, 1, 0)}

\* ---------------------------------------------------------------------
\* Tasks
\* ---------------------------------------------------------------------
NoObject == [id |-> None, is_familiar |-> FALSE, room_id |-> None]
NoRoom == [id |-> None, timing |-> None]

\* f"{prefix}_{id}_{idx}": the formatted task id, kept as its three parts
\* (idx = 0 when the format has no index, prefix = "" when the id is used raw)
TaskId(prefix, id, idx) == <<prefix, id, idx>>

\* a task dict; absent keys hold None / NoObject / NoRoom / NoOrder / <<>>
Task(task_id, kind, stage, duration_ms) ==
    [task_id |-> task_id, kind |-> kind, stage |-> stage, duration_ms |-> duration_ms,
     object |-> NoObject, room |-> NoRoom, correct_order |-> NoOrder,
     is_correct |-> None, choices |-> <<>>, rooms |-> <<>>]

NoTask == Task(TaskId("", None, 0), None, None, 0)


\* ---------------------------------------------------------------------
\* Trial builder
\* ---------------------------------------------------------------------
Ids(s) == [i \in 1..Len(s) |-> s[i].id]

\* the indices of the trials whose is_correct flag is ok
TrialsWith(trials, ok) == FilterSeq(trials, {t \in Range(trials) : t.is_correct = ok})

\* mutant: the two halves are cut to target_each whatever their lengths
MutPickAlwaysTruncate(trials, pc, pi) ==
    Take(Shuffled(TrialsWith(trials, TRUE), pc), TargetEach)
        \o Take(Shuffled(TrialsWith(trials, FALSE), pi), TargetEach)

\* _pick_balanced_trials: pc, pi are the outcomes of the two shuffles
PickBalancedTrials(trials, pc, pi) ==
    LET correct == Shuffled(TrialsWith(trials, TRUE), pc)
        incorrect == Shuffled(TrialsWith(trials, FALSE), pi)
    IN  IF Len(correct) >= TargetEach /\ Len(incorrect) >= TargetEach
        THEN Take(correct, TargetEach) \o Take(incorrect, TargetEach)
        ELSE correct \o incorrect

\* number of trials _pick_balanced_trials returns for a pool
PickedLen(trials) ==
    LET nc == Len(TrialsWith(trials, TRUE))
        ni == Len(TrialsWith(trials, FALSE))
    IN  IF nc >= TargetEach /\ ni >= TargetEach THEN 2 * TargetEach ELSE nc + ni

\* the "for _ in range(5)" reshuffle loop of the secondary room order:
\* cur is the list before the k-th shuffle, perms[k] the k-th shuffle outcome
RECURSIVE IiaLoop(_, _, _, _)
IiaLoop(cur, learning, perms, k) ==
    LET nxt == Shuffled(cur, perms[k])
    IN  IF Ids(nxt) # learning \/ k = 5 THEN nxt
        ELSE IiaLoop(nxt, learning, perms, k + 1)

\* rooms_iia after the loop and the rotation fallback
IiaRooms(rooms, learning, perms) ==
    LET r == IiaLoop(rooms, learning, perms, 1)
    IN  IF Ids(r) = learning /\ r # <<>> THEN Tail(r) \o <<Head(r)>> ELSE r

\* the outcomes of all shuffles of one build, in the order they are drawn;
\* a reshuffle of rooms_iia that the loop never reaches (it breaks at the
\* first order that differs from the learning order) has no outcome, which
\* the identity stands for
ShuffleOutcomes(data, mode) ==
    LET nr == Len(data.rooms)
        no == Len(data.familiar_objects) + Len(data.new_objects)
        n5c == Len(TrialsWith(data.step5_trials, TRUE))
        n5i == Len(TrialsWith(data.step5_trials, FALSE))
        nrc == Len(TrialsWith(data.rappel_immediat_trials, TRUE))
        nri == Len(TrialsWith(data.rappel_immediat_trials, FALSE))
        recall == mode # "rappel_immediat"
        Drawn(sh) ==
            LET after[k \in 0..4] ==
                    IF k = 0 THEN data.rooms ELSE Shuffled(after[k - 1], sh.iia[k])
            IN  \A k \in 1..4 :
                    Ids(after[k]) # Ids(Shuffled(data.rooms, sh.learning))
                        => sh.iia[k + 1] = [i \in 1..nr |-> i]
    IN  {sh \in
            [learning : IF recall THEN Perms(nr) ELSE {<<>>},
             iia : IF recall THEN [1..5 -> Perms(nr)] ELSE {<<>>},
             step1 : IF recall THEN Perms(no) ELSE {<<>>},
             step3 : IF recall THEN Perms(nr) ELSE {<<>>},
             s5c : IF recall THEN Perms(n5c) ELSE {<<>>},
             s5i : IF recall THEN Perms(n5i) ELSE {<<>>},
             s5 : IF recall THEN Perms(PickedLen(data.step5_trials)) ELSE {<<>>},
             ric : Perms(nrc),
             rii : Perms(nri),
             ri : Perms(PickedLen(data.rappel_immediat_trials))] :
         recall => Drawn(sh)}

RiTask(t) ==
    [Task(TaskId("", t.id, 0), "rappel_immediat", "RI", RAPPEL_IMMEDIAT_DURATION_MS)
        EXCEPT !.is_correct = OptBool(t.is_correct)]

Step1Task(obj, idx) ==
    [Task(TaskId("step1", obj.id, idx), "step1", "I", STEP1_DURATION_MS) EXCEPT !.object = obj]

Step3Task(room) ==
    [Task(TaskId("step3", room.id, 0), "step3_daynight", "III", STEP3_DURATION_MS) EXCEPT !.room = room]

\* mutant: the rank counted from the end of the learning order
MutStep4TaskRankFromEnd(room, learning) ==
    [Task(TaskId("step4", room.id, 0), "step4_order", "IV", STEP4_DURATION_MS)
        EXCEPT !.room = room,
               !.correct_order = IF IndexOf(learning, room.id) = NoOrder THEN NoOrder
                                 ELSE Len(learning) + 1 - IndexOf(learning, room.id)]

Step4Task(room, learning) ==
    [Task(TaskId("step4", room.id, 0), "step4_order", "IV", STEP4_DURATION_MS)
        EXCEPT !.room = room, !.correct_order = IndexOf(learning, room.id)]

\* mutant: the ground truth is kept as stored
MutStep5TaskKeepsFlag(t) ==
    [Task(TaskId("step5", t.id, 0), "step5", "V", STEP4_DURATION_MS)
        EXCEPT !.is_correct = OptBool(t.is_correct)]

Step5Task(t) ==
    [Task(TaskId("step5", t.id, 0), "step5", "V", STEP4_DURATION_MS)
        EXCEPT !.is_correct = OptBool(~t.is_correct)]

RiEndTask(t) ==
    [Task(TaskId("ri_end", t.id, 0), "rappel_immediat", "RI_END", RAPPEL_IMMEDIAT_DURATION_MS)
        EXCEPT !.is_correct = OptBool(t.is_correct)]

\* self.learning_room_order after _build_tasks (unchanged in rappel_immediat mode)
LearningOrder(data, sh) == Ids(Shuffled(data.rooms, sh.learning))

\* self.iia_room_order after _build_tasks
IiaOrder(data, sh) == Ids(IiaRooms(data.rooms, LearningOrder(data, sh), sh.iia))

\* _build_tasks: the queue built from the catalog data under shuffle outcomes sh
BuildTasks(data, mode, sh) ==
    IF mode = "rappel_immediat"
    THEN LET balanced_ri == Shuffled(PickBalancedTrials(data.rappel_immediat_trials, sh.ric, sh.rii), sh.ri)
         IN  [i \in 1..Len(balanced_ri) |-> RiTask(balanced_ri[i])]
    ELSE LET learning == LearningOrder(data, sh)
             step1_objects == Shuffled(data.familiar_objects \o data.new_objects, sh.step1)
             rooms_for_step3 == Shuffled(data.rooms, sh.step3)
             step5_trials == Shuffled(PickBalancedTrials(data.step5_trials, sh.s5c, sh.s5i), sh.s5)
             final_ri == Shuffled(PickBalancedTrials(data.rappel_immediat_trials, sh.ric, sh.rii), sh.ri)
         IN  [i \in 1..Len(step1_objects) |-> Step1Task(step1_objects[i], i)]
             \o [i \in 1..Len(rooms_for_step3) |-> Step3Task(rooms_for_step3[i])]
             \o [i \in 1..Len(rooms_for_step3) |-> Step4Task(rooms_for_step3[i], learning)]
             \o [i \in 1..Len(step5_trials) |-> Step5Task(step5_trials[i])]
             \o [i \in 1..Len(final_ri) |-> RiEndTask(final_ri[i])]


\* ---------------------------------------------------------------------
\* Response evaluator
\* ---------------------------------------------------------------------
\* the value returned by the "for choice in task.get('choices')" loop
RECURSIVE ChoiceVerdict(_, _)
ChoiceVerdict(choices, response) ==
    IF choices = <<>> THEN "False"
    ELSE IF Head(choices).id = response THEN OptBool(Head(choices).is_correct)
    ELSE ChoiceVerdict(Tail(choices), response)

\* mutant: at Stage I a "no" is judged as a "yes" is
MutEvaluateNoAsYes(task, response, timeout) ==
    LET kind == task.kind
        obj == task.object
    IN  IF kind = "step2_spatial" /\ ~obj.is_familiar THEN "None"
        ELSE IF response \in {None, "je_ne_sais_pas", "ne_repond_pas"} THEN "False"
        ELSE IF kind = "step1" THEN
            (IF response = "yes" THEN OptBool(obj.is_familiar)
             ELSE IF response = "no" THEN OptBool(obj.is_familiar)
             ELSE "None")
        ELSE IF kind = "step2_where" THEN
            (IF ~obj.is_familiar THEN "False" ELSE OptBool(response = obj.room_id))
        ELSE IF kind = "step2_spatial" THEN ChoiceVerdict(task.choices, response)
        ELSE IF kind = "step3_daynight" THEN OptBool(response = task.room.timing)
        ELSE IF kind = "step4_order" THEN OptBool(response = Str(task.correct_order))
        ELSE IF kind \in {"step5", "rappel_immediat"} THEN
            (IF response = "correct" THEN OptBool(PyBool(task.is_correct))
             ELSE IF response = "incorrect" THEN OptBool(~PyBool(task.is_correct))
             ELSE "None")
        ELSE "None"

\* _evaluate_correctness: "True", "False" or "None"
EvaluateCorrectness(task, response, timeout) ==
    LET kind == task.kind
        obj == task.object
    IN  IF kind = "step2_spatial" /\ ~obj.is_familiar THEN "None"
        ELSE IF response \in {None, "je_ne_sais_pas", "ne_repond_pas"} THEN "False"
        ELSE IF kind = "step1" THEN
            (IF response = "yes" THEN OptBool(obj.is_familiar)
             ELSE IF response = "no" THEN OptBool(~obj.is_familiar)
             ELSE "None")
        ELSE IF kind = "step2_where" THEN
            (IF ~obj.is_familiar THEN "False" ELSE OptBool(response = obj.room_id))
        ELSE IF kind = "step2_spatial" THEN ChoiceVerdict(task.choices, response)
        ELSE IF kind = "step3_daynight" THEN OptBool(response = task.room.timing)
        ELSE IF kind = "step4_order" THEN OptBool(response = Str(task.correct_order))
        ELSE IF kind \in {"step5", "rappel_immediat"} THEN
            (IF response = "correct" THEN OptBool(PyBool(task.is_correct))
             ELSE IF response = "incorrect" THEN OptBool(~PyBool(task.is_correct))
             ELSE "None")
        ELSE "None"

NoDistance == -1     \* the record has no "error_distance" key

\* the id of the first choice flagged correct, or None
RECURSIVE ExpectedChoice(_)
ExpectedChoice(choices) ==
    IF choices = <<>> THEN None
    ELSE IF Head(choices).is_correct THEN Head(choices).id
    ELSE ExpectedChoice(Tail(choices))

\* _annotate_record_metrics: the record with response_category (None when the
\* routine sets none) and error_distance filled in
AnnotateRecordMetrics(task, response, record) ==
    LET kind == task.kind
        obj == task.object
        cat(c) == [record EXCEPT !.response_category = c]
    IN  IF response = None THEN cat("no_response")
        ELSE IF response = "ne_repond_pas" THEN cat("no_response")
        ELSE IF response = "je_ne_sais_pas" THEN cat("dont_know")
        ELSE IF kind = "step1" THEN
            (IF response = "yes" THEN cat(IF obj.is_familiar THEN "hit" ELSE "false_alarm")
             ELSE IF response = "no" THEN cat(IF obj.is_familiar THEN "miss" ELSE "correct_rejection")
             ELSE cat("other"))
        ELSE IF kind = "step2_where" THEN
            (IF ~obj.is_familiar THEN cat("no_correct_answer")
             ELSE IF response = obj.room_id THEN cat("correct_room")
             ELSE cat("wrong_room"))
        ELSE IF kind = "step2_spatial" THEN
            (IF ~obj.is_familiar THEN cat("no_correct_answer")
             ELSE IF response = ExpectedChoice(task.choices) THEN cat("correct_position")
             ELSE cat("wrong_position"))
        ELSE IF kind = "step3_daynight" THEN
            (IF response = task.room.timing THEN cat("correct_time") ELSE cat("wrong_time"))
        ELSE IF kind = "step4_order" THEN
            (LET expected == task.correct_order
                 response_int == ParseInt(response)
             IN  IF expected # NoOrder /\ response_int # 0
                 THEN [record EXCEPT
                         !.error_distance = Abs(response_int - expected),
                         !.response_category =
                            IF response_int = expected THEN "correct_order" ELSE "wrong_order"]
                 ELSE cat("wrong_order"))
        ELSE IF kind \in {"step5", "rappel_immediat"} THEN
            cat(IF PyBool(record.is_correct) THEN "correct_scene" ELSE "wrong_scene")
        ELSE record


\* ---------------------------------------------------------------------
\* State
\* ---------------------------------------------------------------------
VARIABLES
    \* module-level configuration and environment
    RANDOM_MODE,             \* "fixed" or "per_session"
    assets,                  \* the catalog _load_v2_assets finds on disk
    rng_memo,                \* outcomes of random.Random(seed), per seed already used
    next_uuid,               \* number of uuid4() values drawn so far
    saved,                   \* the session files written by _save_session
    \* ExperimentApp fields
    data, experiment_name, session_id, subject_id, task_mode,
    session_ended_at, running,
    task_queue, current_task_index, current_task,
    task_elapsed_ms,         \* (perf_counter() - task_start_perf) * 1000, or NoPerf
    task_duration_ms, task_active, intermission_active,
    intermission_elapsed_ms, \* (perf_counter() - intermission_start_perf) * 1000, or NoPerf
    selected_choice_id, learning_room_order, iia_room_order,
    records, stage_scores,
    \* VRWebSocketServer fields
    ws_running,              \* the _running event
    ws_threads,              \* one entry per listener thread ever started
    ws_messages,             \* the _messages buffer
    ws_loop,                 \* the thread whose event loop _loop holds, 0 for None
    ws_thread,               \* the thread _thread holds, 0 for None
    ws_lock,                 \* who holds _lock: "free", "handler" or "main"
    ws_pc,                   \* where the main thread stands inside drain_messages / stop
    ws_msgs,                 \* the local msgs of drain_messages
    \* history of the run
    save_calls,              \* number of calls of _save_session
    ws_accepted,             \* every message the handler has appended, in order
    ws_drained,              \* the lists drain_messages has returned, in order
    shown,                   \* number of calls of _show_task since on_start reset the session
    eval                     \* the call under study in the single-call specifications;
                             \* the budgets spent; whether stop() has returned

vars == <<RANDOM_MODE, assets, rng_memo, next_uuid, saved,
          data, experiment_name, session_id, subject_id, task_mode,
          session_ended_at, running, task_queue, current_task_index, current_task,
          task_elapsed_ms, task_duration_ms, task_active, intermission_active,
          intermission_elapsed_ms, selected_choice_id, learning_room_order,
          iia_room_order, records, stage_scores, ws_running, ws_threads, ws_messages,
          ws_loop, ws_thread, ws_lock, ws_pc, ws_msgs,
          save_calls, ws_accepted, ws_drained, shown, eval>>

\* the whole state as one record, so that a handler is a function on states
Self ==
    [RANDOM_MODE |-> RANDOM_MODE, assets |-> assets, rng_memo |-> rng_memo,
     next_uuid |-> next_uuid, saved |-> saved,
     data |-> data, experiment_name |-> experiment_name, session_id |-> session_id,
     subject_id |-> subject_id, task_mode |-> task_mode,
     session_ended_at |-> session_ended_at, running |-> running,
     task_queue |-> task_queue, current_task_index |-> current_task_index,
     current_task |-> current_task, task_elapsed_ms |-> task_elapsed_ms,
     task_duration_ms |-> task_duration_ms, task_active |-> task_active,
     intermission_active |-> intermission_active,
     intermission_elapsed_ms |-> intermission_elapsed_ms,
     selected_choice_id |-> selected_choice_id,
     learning_room_order |-> learning_room_order, iia_room_order |-> iia_room_order,
     records |-> records, stage_scores |-> stage_scores,
     ws_running |-> ws_running, ws_threads |-> ws_threads, ws_messages |-> ws_messages,
     ws_loop |-> ws_loop, ws_thread |-> ws_thread, ws_lock |-> ws_lock,
     ws_pc |-> ws_pc, ws_msgs |-> ws_msgs,
     save_calls |-> save_calls, ws_accepted |-> ws_accepted, ws_drained |-> ws_drained,
     shown |-> shown, eval |-> eval]

\* the next state is the record s
Becomes(s) ==
    /\ RANDOM_MODE' = s.RANDOM_MODE /\ assets' = s.assets /\ rng_memo' = s.rng_memo
    /\ next_uuid' = s.next_uuid /\ saved' = s.saved
    /\ data' = s.data /\ experiment_name' = s.experiment_name
    /\ session_id' = s.session_id /\ subject_id' = s.subject_id
    /\ task_mode' = s.task_mode /\ session_ended_at' = s.session_ended_at
    /\ running' = s.running /\ task_queue' = s.task_queue
    /\ current_task_index' = s.current_task_index /\ current_task' = s.current_task
    /\ task_elapsed_ms' = s.task_elapsed_ms /\ task_duration_ms' = s.task_duration_ms
    /\ task_active' = s.task_active /\ intermission_active' = s.intermission_active
    /\ intermission_elapsed_ms' = s.intermission_elapsed_ms
    /\ selected_choice_id' = s.selected_choice_id
    /\ learning_room_order' = s.learning_room_order
    /\ iia_room_order' = s.iia_room_order
    /\ records' = s.records /\ stage_scores' = s.stage_scores
    /\ ws_running' = s.ws_running /\ ws_threads' = s.ws_threads
    /\ ws_messages' = s.ws_messages
    /\ ws_loop' = s.ws_loop /\ ws_thread' = s.ws_thread /\ ws_lock' = s.ws_lock
    /\ ws_pc' = s.ws_pc /\ ws_msgs' = s.ws_msgs
    /\ save_calls' = s.save_calls /\ ws_accepted' = s.ws_accepted
    /\ ws_drained' = s.ws_drained /\ shown' = s.shown /\ eval' = s.eval

ZeroScores == [k \in STAGES |-> [total |-> 0, correct |-> 0]]

\* ExperimentApp.__init__ and VRWebSocketServer.__init__
InitApp ==
    /\ data = EmptyData /\ experiment_name = "" /\ session_id = 0 /\ subject_id = <<>>
    /\ task_mode = "recall" /\ session_ended_at = None /\ running = FALSE
    /\ task_queue = <<>> /\ current_task_index = -1 /\ current_task = NoTask
    /\ task_elapsed_ms = NoPerf /\ task_duration_ms = 0
    /\ task_active = FALSE /\ intermission_active = FALSE
    /\ intermission_elapsed_ms = NoPerf /\ selected_choice_id = None
    /\ learning_room_order = <<>> /\ iia_room_order = <<>>
    /\ records = <<>> /\ stage_scores = ZeroScores
    /\ ws_running = FALSE /\ ws_threads = <<>> /\ ws_messages = <<>>
    /\ ws_loop = 0 /\ ws_thread = 0 /\ ws_lock = "free"
    /\ ws_pc = "idle" /\ ws_msgs = <<>>

\* nothing has happened yet
InitHistory ==
    /\ save_calls = 0 /\ ws_accepted = <<>> /\ ws_drained = <<>> /\ shown = 0 /\ eval = None

Init ==
    /\ RANDOM_MODE = "fixed"
    /\ assets \in SessionAssets
    /\ rng_memo = <<>>
    /\ next_uuid = 0
    /\ saved = <<>>
    /\ InitApp
    /\ InitHistory


\* ---------------------------------------------------------------------
\* VRWebSocketServer
\* ---------------------------------------------------------------------
\* a listener thread is "starting" (spawned, not yet scheduled), "binding"
\* (_run has created its loop), "serving" (run_forever), "stopping" (its loop
\* was asked to stop), "dead" (_run has returned) or "unstarted"
\* (Thread.start() raised)

\* the threads whose loop runs the connection handlers
Serving(s) == {i \in DOMAIN s.ws_threads : s.ws_threads[i] = "serving"}

\* start(); outcome is "spawn", "no_library" (websockets is None) or
\* "raises" (Thread.start() raises after _thread was assigned)
WsStart(s, outcome) ==
    IF s.ws_running THEN s
    ELSE IF outcome = "no_library" THEN s
    ELSE [s EXCEPT !.ws_threads = Append(@, IF outcome = "raises" THEN "unstarted" ELSE "starting"),
                   !.ws_thread = Len(s.ws_threads) + 1]

\* _run, first statements: the thread publishes its event loop
ListenerBegin(s, i) == [s EXCEPT !.ws_threads[i] = "binding", !.ws_loop = i]

\* _run, websockets.serve: bound, the event is set and the loop runs forever;
\* not bound, the finally clause clears the event and closes the loop
ListenerBind(s, i, bound) ==
    IF bound THEN [s EXCEPT !.ws_threads[i] = "serving", !.ws_running = TRUE]
    ELSE [s EXCEPT !.ws_threads[i] = "dead", !.ws_running = FALSE]

\* _run, the finally clause after run_forever has returned
ListenerExit(s, i) == [s EXCEPT !.ws_threads[i] = "dead", !.ws_running = FALSE]

\* a telemetry message; during is the session it was accepted in, 0 for none
Message(n, during) == [n |-> n, during |-> during]

\* _handler: the append made while holding the lock
HandlerAppend(s, during) ==
    LET m == Message(Len(s.ws_accepted) + 1, during)
    IN  [s EXCEPT !.ws_messages = Append(@, m), !.ws_accepted = Append(@, m)]

\* mutant: the lock is never seen as held
MutLockAlwaysFree(s) == TRUE

\* with self._lock: the lock can be taken
LockFree(s) == s.ws_lock = "free"

\* drain_messages(): msgs = list(self._messages)
DrainCopy(s) == [s EXCEPT !.ws_msgs = s.ws_messages]

\* drain_messages(): self._messages.clear()
DrainClear(s) == [s EXCEPT !.ws_messages = <<>>]

\* drain_messages(): return msgs
DrainReturn(s) == [s EXCEPT !.ws_drained = Append(@, s.ws_msgs), !.ws_msgs = <<>>]

\* drain_messages(): the copied-out list
WsDrained(s) == s.ws_messages

\* drain_messages(): the state after the call, which holds the lock throughout
WsDrain(s) == DrainReturn(DrainClear(DrainCopy(s)))

\* stop(): call_soon_threadsafe raises when the loop _loop holds is closed
StopSignalRaises(s) == s.ws_loop # 0 /\ s.ws_threads[s.ws_loop] = "dead"

\* stop(): self._loop.call_soon_threadsafe(self._loop.stop)
StopSignal(s) ==
    IF s.ws_loop # 0 /\ s.ws_threads[s.ws_loop] = "serving"
    THEN [s EXCEPT !.ws_threads[s.ws_loop] = "stopping"]
    ELSE s

\* stop(): join raises on a thread that was never started
StopJoinRaises(s) == s.ws_thread # 0 /\ s.ws_threads[s.ws_thread] = "unstarted"

\* stop(): self._thread.join(timeout=2.0); joined: a stopping thread exits
\* within the timeout
StopJoin(s, joined) ==
    IF s.ws_thread # 0 /\ s.ws_threads[s.ws_thread] = "stopping" /\ joined
    THEN ListenerExit(s, s.ws_thread)
    ELSE s

\* the thread _thread holds has been started and has not returned
ThreadAlive(s) ==
    s.ws_thread # 0 /\ s.ws_threads[s.ws_thread] \notin {"dead", "unstarted"}

\* mutant: join() without a timeout
MutJoinForever(s, elapsed) == ~ThreadAlive(s)

\* stop(): join(timeout=2.0) returns once the thread has exited or the 2 s
\* have elapsed
JoinReturns(s, elapsed) == ~ThreadAlive(s) \/ elapsed

\* mutant: stop() clears the session's running flag with its own
MutStopClearsRunning(s) == [s EXCEPT !.ws_running = FALSE, !.running = FALSE]

\* stop(): self._running.clear()
StopClear(s) == [s EXCEPT !.ws_running = FALSE]

\* stop(): the state after the call, returned or raised
WsStop(s, joined) ==
    IF ~s.ws_running THEN s
    ELSE IF StopSignalRaises(s) THEN s
    ELSE IF StopJoinRaises(StopSignal(s)) THEN StopSignal(s)
    ELSE StopClear(StopJoin(StopSignal(s), joined))

\* ---------------------------------------------------------------------
\* Session driver
\* ---------------------------------------------------------------------
\* _rooms_by_ids(ROOM_GRID_ORDER, rooms) followed by the rooms not in the grid order
OrderedRooms(rooms) ==
    LET in_grid == [i \in 1..Len(ROOM_GRID_ORDER) |->
                        IF \E r \in Range(rooms) : r.id = ROOM_GRID_ORDER[i]
                        THEN CHOOSE r \in Range(rooms) : r.id = ROOM_GRID_ORDER[i]
                        ELSE NoRoom]
        grid == FilterSeq(in_grid, Range(rooms))
    IN  grid \o FilterSeq(rooms, Range(rooms) \ Range(grid))

\* mutant: the first choice offered for a new object is flagged correct
MutSpatialChoicesNovelGood(obj, swap) ==
    LET choices == IF obj.is_familiar
                   THEN <<[id |-> "good", is_correct |-> TRUE], [id |-> "bad", is_correct |-> FALSE]>>
                   ELSE <<[id |-> "bad1", is_correct |-> TRUE], [id |-> "bad2", is_correct |-> FALSE]>>
    IN  IF swap THEN <<choices[2], choices[1]>> ELSE choices

\* the choices of a spatial-position task; swap is the outcome of random.shuffle
SpatialChoices(obj, swap) ==
    LET choices == IF obj.is_familiar
                   THEN <<[id |-> "good", is_correct |-> TRUE], [id |-> "bad", is_correct |-> FALSE]>>
                   ELSE <<[id |-> "bad1", is_correct |-> FALSE], [id |-> "bad2", is_correct |-> FALSE]>>
    IN  IF swap THEN <<choices[2], choices[1]>> ELSE choices

\* the two follow-up tasks spliced in after a "yes" at Stage I
FollowUps(obj, rooms, swap) ==
    << [Task(TaskId("step2_where", obj.id, 0), "step2_where", "IIA", STEP2_DURATION_MS)
            EXCEPT !.object = obj, !.rooms = OrderedRooms(rooms)],
       [Task(TaskId("step2_spatial", obj.id, 0), "step2_spatial", "IIB", STEP2_DURATION_MS)
            EXCEPT !.object = obj, !.choices = SpatialChoices(obj, swap)] >>

\* mutant: the timeout sentinel is never substituted
MutResponseNoSentinel(s, timeout) == s.selected_choice_id

\* response_value of _finalize_current_task
ResponseValue(s, timeout) ==
    IF timeout /\ s.selected_choice_id = None THEN "ne_repond_pas" ELSE s.selected_choice_id

\* the record appended by _finalize_current_task
NewRecord(s, timeout) ==
    LET task == s.current_task
        elapsed_ms == s.task_elapsed_ms
        \* computed at line 1314 and stored in no field of the record
        response_duration_ms == Max(0, Min(elapsed_ms, s.task_duration_ms))
        response_value == ResponseValue(s, timeout)
        record == [task_id |-> task.task_id, stage |-> task.stage, kind |-> task.kind,
                   object |-> task.object,
                   duration_ms |-> s.task_duration_ms,
                   actual_elapsed_ms |-> Max(0, elapsed_ms),
                   response |-> response_value, timeout |-> timeout,
                   is_correct |-> EvaluateCorrectness(task, response_value, timeout),
                   response_category |-> None, error_distance |-> NoDistance]
    IN  AnnotateRecordMetrics(task, response_value, record)

\* mutant: a null verdict is counted in the stage total
MutScoresCountNull(scores, stage, correct) ==
    IF stage \in DOMAIN scores
    THEN [scores EXCEPT ![stage] = [total |-> @.total + 1,
                                    correct |-> IF correct = "True" THEN @.correct + 1 ELSE @.correct]]
    ELSE scores

\* stage_scores after a finalization judged correct ("True"/"False"/"None")
ScoresAfter(scores, stage, correct) ==
    IF correct # "None" /\ stage \in DOMAIN scores
    THEN [scores EXCEPT ![stage] = [total |-> @.total + 1,
                                    correct |-> IF correct = "True" THEN @.correct + 1 ELSE @.correct]]
    ELSE scores

\* mutant: the follow-ups are spliced in before the current task
MutQueueInsertAtCursor(s, task, response_value, swap) ==
    IF task.kind = "step1" /\ response_value = "yes"
    THEN InsertAt(s.task_queue, s.current_task_index,
                  FollowUps(task.object, s.data.rooms, swap))
    ELSE s.task_queue

\* the queue after the follow-up injection step of _finalize_current_task
QueueAfter(s, task, response_value, swap) ==
    IF task.kind = "step1" /\ response_value = "yes"
    THEN InsertAt(s.task_queue, s.current_task_index + 1,
                  FollowUps(task.object, s.data.rooms, swap))
    ELSE s.task_queue

\* mutant: task_active is left set
MutResetKeepsActive(s) ==
    [s EXCEPT !.task_elapsed_ms = NoPerf, !.selected_choice_id = None]

\* "Reset current task flags"
ResetTaskFlags(s) ==
    [s EXCEPT !.task_active = FALSE, !.task_elapsed_ms = NoPerf, !.selected_choice_id = None]

\* mutant: the intermission flag is not raised
MutStartIntermissionNoFlag(s) ==
    [s EXCEPT !.intermission_elapsed_ms = 0]

\* _start_intermission
StartIntermission(s) ==
    [s EXCEPT !.intermission_active = TRUE, !.intermission_elapsed_ms = 0]

\* the statements of _finalize_current_task after its two guards
FinalizeBody(s, timeout, swap) ==
    LET task == s.current_task
        record == NewRecord(s, timeout)
    IN  StartIntermission(ResetTaskFlags(
            [s EXCEPT !.stage_scores = ScoresAfter(@, task.stage, record.is_correct),
                      !.records = Append(@, record),
                      !.task_queue = QueueAfter(s, task, record.response, swap)]))

\* mutant: no re-entry guard
MutFinalizeUnguarded(s, timeout, force, swap) == FinalizeBody(s, timeout, swap)

\* _finalize_current_task(timeout, force)
FinalizeCurrentTask(s, timeout, force, swap) ==
    IF ~s.task_active /\ ~force THEN s
    ELSE IF s.current_task = NoTask \/ s.task_elapsed_ms = NoPerf THEN s
    ELSE FinalizeBody(s, timeout, swap)

\* _save_session: the session file is written unless mkdir raises (and the
\* exception leaves on_stop) or the write fails (and is swallowed)
SaveSession(s, vr_msgs, mkdir_ok, write_ok) ==
    LET s1 == [s EXCEPT !.save_calls = @ + 1]
    IN  IF mkdir_ok /\ write_ok
        THEN [s1 EXCEPT !.saved = Append(@, [session_id |-> s.session_id,
                                             subject_id |-> s.subject_id,
                                             ended_at |-> s.session_ended_at,
                                             tasks |-> s.records,
                                             vr_messages |-> vr_msgs])]
        ELSE s1

\* mutant: the active task is dropped without a record
MutOnStopNoFinalize(s, env) ==
    IF ~s.running THEN s
    ELSE LET s2 == [s EXCEPT !.running = FALSE, !.task_active = FALSE,
                             !.intermission_active = FALSE,
                             !.session_ended_at = "set"]
             s3 == WsDrain(s2)
             s4 == IF env.late /\ Serving(s3) # {}
                   THEN HandlerAppend(s3, s3.session_id) ELSE s3
         IN  SaveSession(WsStop(s4, env.joined), WsDrained(s2), env.mkdir_ok, env.write_ok)

\* mutant: an exception of drain_messages() leaves on_stop
MutOnStopDrainUncaught(s, env) ==
    LET s1 == FinalizeCurrentTask(s, TRUE, FALSE, env.swap)
    IN  IF ~s1.running THEN s1
        ELSE LET s2 == [s1 EXCEPT !.running = FALSE, !.task_active = FALSE,
                                  !.intermission_active = FALSE,
                                  !.session_ended_at = "set"]
                 s4 == IF env.late /\ Serving(WsDrain(s2)) # {}
                       THEN HandlerAppend(WsDrain(s2), s2.session_id) ELSE WsDrain(s2)
                 s5 == IF env.stop_ok THEN WsStop(s4, env.joined) ELSE s4
             IN  IF ~env.drain_ok THEN s2
                 ELSE SaveSession(s5, WsDrained(s2), env.mkdir_ok, env.write_ok)

\* on_stop; env gives the outcomes the environment decides
OnStop(s, env) ==
    LET s1 == FinalizeCurrentTask(s, TRUE, FALSE, env.swap)
    IN  IF ~s1.running THEN s1
        ELSE LET s2 == [s1 EXCEPT !.running = FALSE, !.task_active = FALSE,
                                  !.intermission_active = FALSE,
                                  !.session_ended_at = "set"]
                 vr_msgs == IF env.drain_ok THEN WsDrained(s2) ELSE <<>>
                 s3 == IF env.drain_ok THEN WsDrain(s2) ELSE s2
                 s4 == IF env.late /\ Serving(s3) # {}
                       THEN HandlerAppend(s3, s3.session_id) ELSE s3
                 s5 == IF env.stop_ok THEN WsStop(s4, env.joined) ELSE s4
             IN  SaveSession(s5, vr_msgs, env.mkdir_ok, env.write_ok)

\* _show_task: the timing part (the rest renders the task)
ShowTask(s, task) ==
    [s EXCEPT !.intermission_active = FALSE,
              !.task_elapsed_ms = 0,
              !.task_duration_ms = task.duration_ms,
              !.task_active = TRUE,
              !.selected_choice_id = None,
              !.shown = @ + 1]

\* mutant: the task shown is not re-read from the queue at the new cursor
MutGoToNextStaleTask(s, env) ==
    IF ~s.running THEN s
    ELSE LET s1 == [s EXCEPT !.current_task_index = @ + 1]
         IN  IF s1.current_task_index >= Len(s1.task_queue)
             THEN OnStop(s1, env)
             ELSE ShowTask(s1, s1.current_task)

\* _go_to_next_task
GoToNextTask(s, env) ==
    IF ~s.running THEN s
    ELSE LET s1 == [s EXCEPT !.current_task_index = @ + 1]
         IN  IF s1.current_task_index >= Len(s1.task_queue)
             THEN OnStop(s1, env)
             ELSE LET s2 == [s1 EXCEPT !.current_task = s1.task_queue[s1.current_task_index + 1]]
                  IN  ShowTask(s2, s2.current_task)


\* mutant: the intermission ends at the first tick
MutTimerTickNoDelay(s, env) ==
    IF ~s.running THEN s
    ELSE IF s.intermission_active /\ s.intermission_elapsed_ms # NoPerf
    THEN (IF s.intermission_elapsed_ms >= 0
          THEN GoToNextTask([s EXCEPT !.intermission_active = FALSE,
                                      !.intermission_elapsed_ms = NoPerf], env)
          ELSE s)
    ELSE IF s.task_active /\ s.task_elapsed_ms # NoPerf
    THEN (IF s.task_elapsed_ms >= s.task_duration_ms
          THEN FinalizeCurrentTask(s, TRUE, TRUE, env.swap)
          ELSE s)
    ELSE s

\* mutant: a timed-out task is followed at once by the next task
MutTimerTickTimeoutAdvances(s, env) ==
    IF ~s.running THEN s
    ELSE IF s.intermission_active /\ s.intermission_elapsed_ms # NoPerf
    THEN (IF s.intermission_elapsed_ms >= INTER_DELAY_MS
          THEN GoToNextTask([s EXCEPT !.intermission_active = FALSE,
                                      !.intermission_elapsed_ms = NoPerf], env)
          ELSE s)
    ELSE IF s.task_active /\ s.task_elapsed_ms # NoPerf
    THEN (IF s.task_elapsed_ms >= s.task_duration_ms
          THEN GoToNextTask([FinalizeCurrentTask(s, TRUE, TRUE, env.swap)
                                EXCEPT !.intermission_active = FALSE,
                                       !.intermission_elapsed_ms = NoPerf], env)
          ELSE s)
    ELSE s

\* _timer_tick
TimerTick(s, env) ==
    IF ~s.running THEN s
    ELSE IF s.intermission_active /\ s.intermission_elapsed_ms # NoPerf
    THEN (IF s.intermission_elapsed_ms >= INTER_DELAY_MS
          THEN GoToNextTask([s EXCEPT !.intermission_active = FALSE,
                                      !.intermission_elapsed_ms = NoPerf], env)
          ELSE s)
    ELSE IF s.task_active /\ s.task_elapsed_ms # NoPerf
    THEN (IF s.task_elapsed_ms >= s.task_duration_ms
          THEN FinalizeCurrentTask(s, TRUE, TRUE, env.swap)
          ELSE s)
    ELSE s

\* _on_choice
OnChoice(s, choice_id, env) ==
    IF ~s.task_active THEN s
    ELSE FinalizeCurrentTask([s EXCEPT !.selected_choice_id = choice_id], FALSE, TRUE, env.swap)

\* mutant: the cursor is set to the target before the advance step
MutJumpOffByOne(s, index, env) ==
    IF ~s.running \/ index < 0 \/ index >= Len(s.task_queue) - 1 THEN s
    ELSE LET s1 == IF s.task_active THEN FinalizeCurrentTask(s, TRUE, TRUE, env.swap) ELSE s
             s2 == [s1 EXCEPT !.current_task_index = index,
                              !.intermission_active = FALSE,
                              !.intermission_elapsed_ms = NoPerf]
         IN  GoToNextTask(s2, env)

\* mutant: the target is left to the next intermission tick
MutJumpWaitsIntermission(s, index, env) ==
    IF ~s.running \/ index < 0 \/ index >= Len(s.task_queue) THEN s
    ELSE LET s1 == IF s.task_active THEN FinalizeCurrentTask(s, TRUE, TRUE, env.swap) ELSE s
         IN  [s1 EXCEPT !.current_task_index = index - 1]

\* mutant: the current task is dropped without a record
MutJumpNoFinalize(s, index, env) ==
    IF ~s.running \/ index < 0 \/ index >= Len(s.task_queue) THEN s
    ELSE LET s2 == [s EXCEPT !.current_task_index = index - 1,
                             !.intermission_active = FALSE,
                             !.intermission_elapsed_ms = NoPerf]
         IN  GoToNextTask(s2, env)

\* _jump_to_question
JumpToQuestion(s, index, env) ==
    IF ~s.running \/ index < 0 \/ index >= Len(s.task_queue) THEN s
    ELSE LET s1 == IF s.task_active THEN FinalizeCurrentTask(s, TRUE, TRUE, env.swap) ELSE s
             s2 == [s1 EXCEPT !.current_task_index = index - 1,
                              !.intermission_active = FALSE,
                              !.intermission_elapsed_ms = NoPerf]
         IN  GoToNextTask(s2, env)

\* str.strip() on the subject field, a sequence of characters
RECURSIVE LStrip(_)
LStrip(cs) == IF cs # <<>> /\ Head(cs) = " " THEN LStrip(Tail(cs)) ELSE cs

RECURSIVE RStrip(_)
RStrip(cs) == IF cs # <<>> /\ cs[Len(cs)] = " " THEN RStrip(SubSeq(cs, 1, Len(cs) - 1)) ELSE cs

Strip(cs) == RStrip(LStrip(cs))

\* mutant: the composite seed in both modes
MutRngSeedAlwaysComposite(s) == <<s.experiment_name, s.subject_id, s.session_id>>

\* the seed _get_rng hands to random.Random
RngSeed(s) ==
    IF s.RANDOM_MODE = "per_session"
    THEN <<s.experiment_name, s.subject_id, s.session_id>>
    ELSE <<RANDOM_SEED>>

\* mutant: an exception of ws_server.start() leaves on_start
MutOnStartWsUncaught(s, field, mode, sh, env) ==
    IF s.running THEN s
    ELSE IF Strip(field) = <<>> THEN s
    ELSE LET s1 == [s EXCEPT !.subject_id = Strip(field),
                             !.task_mode = mode,
                             !.data = s.assets,
                             !.experiment_name = s.assets.experiment_name]
             s2 == [s1 EXCEPT
                      !.rng_memo = (<<RngSeed(s1), mode>> :> sh) @@ @,
                      !.task_queue = BuildTasks(s1.data, mode, sh)]
             s3 == [s2 EXCEPT !.session_id = s2.next_uuid + 1,
                              !.next_uuid = s2.next_uuid + 1,
                              !.session_ended_at = None,
                              !.current_task_index = -1,
                              !.records = <<>>, !.shown = 0,
                              !.stage_scores = ZeroScores,
                              !.running = TRUE,
                              !.task_active = FALSE,
                              !.intermission_active = FALSE]
         IN  IF s2.task_queue = <<>> THEN s2
             ELSE IF env.ws_start = "raises" THEN WsStart(s3, env.ws_start)
             ELSE GoToNextTask(WsStart(s3, env.ws_start), env)

\* mutant: the subject id is stored before it is checked
MutOnStartStoresBlank(s, field, mode, sh, env) ==
    IF s.running THEN s
    ELSE IF Strip(field) = <<>> THEN [s EXCEPT !.subject_id = Strip(field), !.task_mode = mode]
    ELSE LET s1 == [s EXCEPT !.subject_id = Strip(field),
                             !.task_mode = mode,
                             !.data = s.assets,
                             !.experiment_name = s.assets.experiment_name]
             s2 == [s1 EXCEPT
                      !.rng_memo = (<<RngSeed(s1), mode>> :> sh) @@ @,
                      !.task_queue = BuildTasks(s1.data, mode, sh)]
             s3 == [s2 EXCEPT !.session_id = s2.next_uuid + 1,
                              !.next_uuid = s2.next_uuid + 1,
                              !.session_ended_at = None,
                              !.current_task_index = -1,
                              !.records = <<>>, !.shown = 0,
                              !.stage_scores = ZeroScores,
                              !.running = TRUE,
                              !.task_active = FALSE,
                              !.intermission_active = FALSE]
         IN  IF s2.task_queue = <<>> THEN s2
             ELSE GoToNextTask(WsStart(s3, env.ws_start), env)

\* mutant: the records and the stage scores are not reset
MutOnStartKeepsLog(s, field, mode, sh, env) ==
    IF s.running THEN s
    ELSE IF Strip(field) = <<>> THEN s
    ELSE LET s1 == [s EXCEPT !.subject_id = Strip(field),
                             !.task_mode = mode,
                             !.data = s.assets,
                             !.experiment_name = s.assets.experiment_name]
             recall == mode # "rappel_immediat"
             s2 == [s1 EXCEPT
                      !.rng_memo = (<<RngSeed(s1), mode>> :> sh) @@ @,
                      !.learning_room_order = IF recall THEN LearningOrder(s1.data, sh) ELSE @,
                      !.iia_room_order = IF recall THEN IiaOrder(s1.data, sh) ELSE @,
                      !.task_queue = BuildTasks(s1.data, mode, sh)]
         IN  IF s2.task_queue = <<>> THEN s2
             ELSE LET s3 == [s2 EXCEPT !.session_id = s2.next_uuid + 1,
                                       !.next_uuid = s2.next_uuid + 1,
                                       !.session_ended_at = None,
                                       !.current_task_index = -1,
                                       !.running = TRUE,
                                       !.task_active = FALSE,
                                       !.intermission_active = FALSE]
                  IN  GoToNextTask(WsStart(s3, env.ws_start), env)

\* on_start; field is the subject field's text, mode the task selector's value,
\* sh the outcomes of the shuffles drawn from _get_rng()
OnStart(s, field, mode, sh, env) ==
    IF s.running THEN s
    ELSE IF Strip(field) = <<>> THEN s
    ELSE LET s1 == [s EXCEPT !.subject_id = Strip(field),
                             !.task_mode = mode,
                             !.data = s.assets,
                             !.experiment_name = s.assets.experiment_name]
             recall == mode # "rappel_immediat"
             s2 == [s1 EXCEPT
                      !.rng_memo = (<<RngSeed(s1), mode>> :> sh) @@ @,
                      !.learning_room_order = IF recall THEN LearningOrder(s1.data, sh) ELSE @,
                      !.iia_room_order = IF recall THEN IiaOrder(s1.data, sh) ELSE @,
                      !.task_queue = BuildTasks(s1.data, mode, sh)]
         IN  IF s2.task_queue = <<>> THEN s2
             ELSE LET s3 == [s2 EXCEPT !.session_id = s2.next_uuid + 1,
                                       !.next_uuid = s2.next_uuid + 1,
                                       !.session_ended_at = None,
                                       !.current_task_index = -1,
                                       !.records = <<>>, !.shown = 0,
                                       !.stage_scores = ZeroScores,
                                       !.running = TRUE,
                                       !.task_active = FALSE,
                                       !.intermission_active = FALSE]
                  IN  GoToNextTask(WsStart(s3, env.ws_start), env)

\* ---------------------------------------------------------------------
\* Inputs
\* ---------------------------------------------------------------------
\* texts typed into the subject field
SubjectInputs == {<<>>, <<" ">>, <<" ", "7">>}

TaskModes == {"recall", "rappel_immediat"}

\* the choice tokens of the buttons _show_task renders for a task
Buttons(task) ==
    {"je_ne_sais_pas"} \cup
    (CASE task.kind = "step1" -> {"yes", "no"}
       [] task.kind = "step2_where" -> {r.id : r \in Range(task.rooms)}
       [] task.kind = "step2_spatial" -> {c.id : c \in Range(task.choices)}
       [] task.kind = "step3_daynight" -> {"jour", "nuit"}
       [] task.kind = "step4_order" -> Range(Numerals)
       [] task.kind \in {"step5", "rappel_immediat"} -> {"correct", "incorrect"}
       [] OTHER -> {})

\* the buttons the participant presses in the session model: any button of a
\* recognition task, one answer button of the other tasks
PressedTokens(task) ==
    IF task.kind = "step1" THEN {"je_ne_sais_pas", "yes", "no"}
    ELSE IF task.kind = None THEN {"je_ne_sais_pas"}
    ELSE {"room1", "good", "bad1", "jour", "1", "correct"}

\* outcomes decided by the environment during a handler: swap is the outcome
\* of random.shuffle(choices); ws_start the outcome of ws_server.start();
\* drain_ok / stop_ok whether drain_messages() / stop() is reached without an
\* exception from outside the model; late whether the listener appends a
\* message between the drain and the stop of on_stop; joined whether the
\* listener thread exits within the join timeout; mkdir_ok / write_ok whether
\* the sessions directory / the session file could be written
Envs == [swap : BOOLEAN, ws_start : {"spawn", "no_library", "raises"},
         drain_ok : BOOLEAN, stop_ok : BOOLEAN, late : BOOLEAN, joined : BOOLEAN,
         mkdir_ok : BOOLEAN, write_ok : BOOLEAN]

\* the environment in which nothing fails and nothing interleaves
Calm == [swap |-> FALSE, ws_start |-> "spawn", drain_ok |-> TRUE, stop_ok |-> TRUE,
         late |-> FALSE, joined |-> TRUE, mkdir_ok |-> TRUE, write_ok |-> TRUE]

\* the environments that differ from Calm in the shuffle only
ShuffleEnvs == {[Calm EXCEPT !.swap = b] : b \in BOOLEAN}

\* the environments of the session model when a handler may stop the session
StopEnvs == {Calm}

\* ---------------------------------------------------------------------
\* Actions
\* ---------------------------------------------------------------------
\* the operator types a subject id, picks a mode and presses start
StartIn(field, mode, env, cap) ==
    LET key == <<RngSeed([Self EXCEPT !.subject_id = Strip(field),
                                      !.experiment_name = assets.experiment_name]), mode>>
        \* no shuffle is drawn when on_start returns at once; a seed already
        \* used gives the outcomes it gave before
        drawn == IF running \/ Strip(field) = <<>> THEN {<<>>}
                 ELSE IF key \in DOMAIN rng_memo THEN {rng_memo[key]}
                 ELSE ShuffleOutcomes(assets, mode)
    IN  /\ next_uuid < cap \/ running \/ Strip(field) = <<>>
        /\ \E sh \in drawn :
                \E n \in {OnStart(Self, field, mode, sh, env)} :
                    /\ n.next_uuid <= cap
                    /\ Becomes(n)

Start(field, mode) == StartIn(field, mode, Calm, MaxSessions)

\* the operator stops the session
StopIn(envs) ==
    \E env \in envs :
        \E n \in {OnStop(Self, env)} :
            /\ Len(n.records) <= MaxRecords
            /\ Becomes(n)

Stop == StopIn(StopEnvs)

\* the 50 ms timer fires
TickIn(envs) ==
    \E env \in envs :
        \E n \in {TimerTick(Self, env)} :
            /\ Len(n.records) <= MaxRecords
            /\ Becomes(n)

Tick == TickIn(StopEnvs)

\* the participant presses a button
Respond(choice_id) ==
    \E env \in ShuffleEnvs :
        \E n \in {OnChoice(Self, choice_id, env)} :
            /\ Len(n.records) <= MaxRecords
            /\ Becomes(n)

\* the operator clicks question index in the navigation drawer
Jump(index) ==
    \E n \in {JumpToQuestion(Self, index, Calm)} :
        /\ Len(n.records) <= MaxRecords
        /\ Becomes(n)

\* time passes; the timer fires within one clock step of a deadline
Advance ==
    /\ task_elapsed_ms # NoPerf => task_elapsed_ms <= task_duration_ms
    /\ task_elapsed_ms' = IF task_elapsed_ms = NoPerf THEN NoPerf ELSE task_elapsed_ms + ClockStep
    /\ intermission_elapsed_ms' =
            IF intermission_elapsed_ms = NoPerf \/ intermission_elapsed_ms >= INTER_DELAY_MS
            THEN intermission_elapsed_ms
            ELSE intermission_elapsed_ms + ClockStep
    /\ UNCHANGED <<RANDOM_MODE, assets, rng_memo, next_uuid, saved,
                   data, experiment_name, session_id, subject_id, task_mode,
                   session_ended_at, running, task_queue, current_task_index, current_task,
                   task_duration_ms, task_active, intermission_active,
                   selected_choice_id, learning_room_order,
                   iia_room_order, records, stage_scores, ws_running, ws_threads, ws_messages,
                   ws_loop, ws_thread, ws_lock, ws_pc, ws_msgs,
                   save_calls, ws_accepted, ws_drained, shown, eval>>

Next ==
    \/ \E field \in SubjectInputs, mode \in TaskModes : Start(field, mode)
    \/ Stop
    \/ Tick
    \/ \E c \in Buttons(current_task) \cap PressedTokens(current_task) : Respond(c)
    \/ \E i \in -1..Len(task_queue) : Jump(i)
    \/ Advance

Spec == Init /\ [][Next]_vars


\* ---------------------------------------------------------------------
\* Sessions with the telemetry listener
\* ---------------------------------------------------------------------
MaxVRSessions == 2   \* uuid4() is drawn at most this many times
MaxMessages == 2     \* the handler accepts at most this many messages

\* one familiar object, one room, one scene per pool
VRAssets == Catalog(1, 1, 0, 1, 0)

\* a one-task session: the immediate-recall block
VRMode == "rappel_immediat"

VRSubjects == {<<>>, <<"7">>}

\* the outcomes of ws_server.start()
VRStartEnvs == {[Calm EXCEPT !.ws_start = o] : o \in {"spawn", "no_library", "raises"}}

\* the interleavings of the listener with on_stop, without failures
VRStopEnvs == {[Calm EXCEPT !.late = l, !.joined = j] : l, j \in BOOLEAN}

\* any combination of failures on the stop path
FaultEnvs ==
    {[Calm EXCEPT !.drain_ok = d, !.stop_ok = t, !.joined = j,
                  !.mkdir_ok = m, !.write_ok = w] :
        d, t, j, m, w \in BOOLEAN}

\* the session the handler is accepting messages for, 0 for none
Accepting == IF running THEN session_id ELSE 0

VRStart == \E field \in VRSubjects, env \in VRStartEnvs : StartIn(field, VRMode, env, MaxVRSessions)

\* the listener thread i is scheduled for the first time
ListenBegin(i) == ws_threads[i] = "starting" /\ Becomes(ListenerBegin(Self, i))

\* the listener thread i binds the port, or fails to
ListenBind(i, bound) ==
    /\ ws_threads[i] = "binding"
    /\ bound => Serving(Self) = {}
    /\ Becomes(ListenerBind(Self, i, bound))

\* the listener thread i leaves _run after its loop was stopped
ListenExit(i) == ws_threads[i] = "stopping" /\ Becomes(ListenerExit(Self, i))

\* a client sends a message
Receive ==
    /\ Serving(Self) # {} /\ ws_lock = "free"
    /\ Len(ws_accepted) < MaxMessages
    /\ Becomes(HandlerAppend(Self, Accepting))

Listener ==
    \/ \E i \in DOMAIN ws_threads : ListenBegin(i)
    \/ \E i \in DOMAIN ws_threads, bound \in BOOLEAN : ListenBind(i, bound)
    \/ \E i \in DOMAIN ws_threads : ListenExit(i)
    \/ Receive

InitVR == Init /\ assets = VRAssets

NextVR ==
    \/ VRStart
    \/ StopIn(VRStopEnvs)
    \/ TickIn(VRStopEnvs)
    \/ \E c \in Buttons(current_task) \cap PressedTokens(current_task) : Respond(c)
    \/ Advance
    \/ Listener

SpecVR == InitVR /\ [][NextVR]_vars

FaultsStart == \E field \in VRSubjects, env \in VRStartEnvs : StartIn(field, VRMode, env, MaxSessions)

NextFaults ==
    \/ FaultsStart
    \/ StopIn(FaultEnvs)
    \/ TickIn(FaultEnvs)
    \/ \E c \in Buttons(current_task) \cap PressedTokens(current_task) : Respond(c)
    \/ Advance
    \/ Listener

SpecFaults == InitVR /\ [][NextFaults]_vars

\* ---------------------------------------------------------------------
\* The telemetry service, statement by statement
\* ---------------------------------------------------------------------
MaxThreads == 2      \* start() spawns at most this many listener threads
MaxDrains == 2       \* drain_messages() is called at most this many times

DrainPcs == {"copy", "clear", "return"}
StopPcs == {"signal", "join", "clear_event"}

\* the main thread calls start(); eval tells whether stop() has returned
\* since the last call of start()
CallStart ==
    /\ ws_pc = "idle" /\ Len(ws_threads) < MaxThreads
    /\ \E outcome \in {"spawn", "no_library", "raises"} :
            Becomes([WsStart(Self, outcome) EXCEPT !.eval = None])

\* the main thread calls drain_messages() and takes the lock
DrainEnter ==
    /\ ws_pc = "idle" /\ Len(ws_drained) < MaxDrains /\ LockFree(Self)
    /\ Becomes([Self EXCEPT !.ws_lock = "main", !.ws_pc = "copy"])

DrainCopyStep == ws_pc = "copy" /\ Becomes([DrainCopy(Self) EXCEPT !.ws_pc = "clear"])

DrainClearStep == ws_pc = "clear" /\ Becomes([DrainClear(Self) EXCEPT !.ws_pc = "return"])

\* drain_messages() returns and releases the lock
DrainReturnStep ==
    /\ ws_pc = "return"
    /\ Becomes([DrainReturn(Self) EXCEPT !.ws_pc = "idle", !.ws_lock = "free"])

\* the handler has a message and takes the lock
HandlerLock ==
    /\ Serving(Self) # {} /\ ws_lock # "handler" /\ LockFree(Self)
    /\ Len(ws_accepted) < MaxMessages
    /\ Becomes([Self EXCEPT !.ws_lock = "handler"])

\* the handler appends and releases the lock
HandlerAppendStep ==
    /\ ws_lock = "handler"
    /\ Becomes([HandlerAppend(Self, 0) EXCEPT !.ws_lock = "free"])

\* the main thread calls stop(): it returns at once when the event is clear
StopEnter ==
    /\ ws_pc = "idle"
    /\ Becomes(IF ws_running THEN [Self EXCEPT !.ws_pc = "signal"]
               ELSE [Self EXCEPT !.eval = "stop_returned"])

\* stop(): call_soon_threadsafe, which raises on a closed loop
StopSignalStep ==
    /\ ws_pc = "signal"
    /\ Becomes(IF StopSignalRaises(Self) THEN [Self EXCEPT !.ws_pc = "idle"]
               ELSE [StopSignal(Self) EXCEPT !.ws_pc = "join"])

\* stop(): join, which raises on an unstarted thread
StopJoinStep ==
    /\ ws_pc = "join"
    /\ \E elapsed \in BOOLEAN :
        /\ JoinReturns(Self, elapsed)
        /\ Becomes(IF StopJoinRaises(Self) THEN [Self EXCEPT !.ws_pc = "idle"]
                   ELSE [Self EXCEPT !.ws_pc = "clear_event"])

\* stop(): the event is cleared and stop() returns
StopClearStep ==
    /\ ws_pc = "clear_event"
    /\ Becomes([StopClear(Self) EXCEPT !.ws_pc = "idle", !.eval = "stop_returned"])

\* the next statement of a stop() in progress
StopStep == StopSignalStep \/ StopJoinStep \/ StopClearStep

NextWs ==
    \/ CallStart
    \/ DrainEnter
    \/ DrainCopyStep
    \/ DrainClearStep
    \/ DrainReturnStep
    \/ StopEnter
    \/ StopSignalStep
    \/ StopJoinStep
    \/ StopClearStep
    \/ \E i \in DOMAIN ws_threads : ListenBegin(i)
    \/ \E i \in DOMAIN ws_threads, bound \in BOOLEAN : ListenBind(i, bound)
    \/ \E i \in DOMAIN ws_threads : ListenExit(i)
    \/ HandlerLock
    \/ HandlerAppendStep

SpecWs == InitVR /\ [][NextWs]_vars

\* ---------------------------------------------------------------------
\* Properties
\* ---------------------------------------------------------------------
Last(seq) == seq[Len(seq)]

\* number of records of a stage that satisfy the test given as a set of
\* is_correct values
CountRecords(stage, verdicts) ==
    Cardinality({i \in DOMAIN records : records[i].stage = stage /\ records[i].is_correct \in verdicts})

\* t is s with the two elements at positions at+1 and at+2 taken out
RemoveTwo(t, at) == SubSeq(t, 1, at) \o SubSeq(t, at + 3, Len(t))

\* a step that finalizes the active task: one record more
Finalizes == task_active /\ Len(records') = Len(records) + 1

\* C1: the active-task period and the intermission period are mutually
\* exclusive: task_active and intermission_active are never both true
C1_MutualExclusion == ~(task_active /\ intermission_active)

C1_Witness == running /\ intermission_active /\ ~task_active /\ records # <<>>

\* C2: for every stage, stage_scores[stage].total is the number of records of
\* that stage with non-null correctness and .correct the number of those
\* judged true
C2_ScoresMatchRecords ==
    \A st \in STAGES :
        /\ stage_scores[st].total = CountRecords(st, {"True", "False"})
        /\ stage_scores[st].correct = CountRecords(st, {"True"})

C2_Witness ==
    /\ Len(records) = 2
    /\ \E st \in STAGES : stage_scores[st].total >= 1
    /\ \E i \in DOMAIN records : records[i].is_correct = "None"

\* C3 (as claimed): a response submitted at or past the deadline is never
\* recorded as a valid response: a record whose elapsed time reached the
\* task's duration has timeout = true and response 'ne_repond_pas'
C3_LateResponseIsTimeout ==
    \A i \in DOMAIN records :
        records[i].actual_elapsed_ms >= records[i].duration_ms
            => records[i].timeout /\ records[i].response = "ne_repond_pas"

\* C4: a respond() or a stop-path finalize arriving while no task is active
\* appends no record, changes no stage score, leaves the queue alone and does
\* not restart the intermission
C4_IgnoredWhileInactive ==
    [][(~task_active /\ ((\E c \in Buttons(current_task) : Respond(c)) \/ Stop))
        => /\ records' = records
           /\ stage_scores' = stage_scores
           /\ task_queue' = task_queue
           /\ intermission_elapsed_ms' = intermission_elapsed_ms]_vars

C4_Witness ==
    /\ running /\ ~task_active /\ intermission_active
    /\ intermission_elapsed_ms > 0 /\ records # <<>>
    /\ Buttons(current_task) \cap PressedTokens(current_task) # {}

\* C5: a record has timeout = true iff its response is the sentinel
\* 'ne_repond_pas', and a record made by respond(c) has timeout = false and
\* carries c
C5_ResponseXorSentinel ==
    /\ [](\A i \in DOMAIN records :
            /\ records[i].timeout <=> records[i].response = "ne_repond_pas"
            /\ records[i].response # None)
    /\ [][\A c \in Buttons(current_task) :
            (Finalizes /\ Respond(c)) =>
                /\ ~Last(records').timeout
                /\ Last(records').response = c]_vars

C5_Witness ==
    /\ \E i \in DOMAIN records : records[i].timeout
    /\ \E i \in DOMAIN records : ~records[i].timeout

\* C6: finalizing a Stage-I task at cursor i with response 'yes' puts exactly
\* two new tasks at positions i+1 and i+2, stage IIA (step2_where) then IIB
\* (step2_spatial), for the same object, and keeps every other task in
\* order; any other finalization leaves the queue unchanged
C6_FollowUpInsertion ==
    [][Finalizes =>
        LET r == Last(records')
            i == current_task_index
        IN  IF r.kind = "step1" /\ r.response = "yes"
            THEN /\ Len(task_queue') = Len(task_queue) + 2
                 /\ RemoveTwo(task_queue', i + 1) = task_queue
                 /\ task_queue'[i + 2].stage = "IIA"
                 /\ task_queue'[i + 2].kind = "step2_where"
                 /\ task_queue'[i + 2].object = current_task.object
                 /\ task_queue'[i + 3].stage = "IIB"
                 /\ task_queue'[i + 3].kind = "step2_spatial"
                 /\ task_queue'[i + 3].object = current_task.object
            ELSE task_queue' = task_queue]_vars

C6_Witness ==
    /\ intermission_active /\ records # <<>>
    /\ Last(records).kind = "step1" /\ Last(records).response = "yes"
    /\ ~Last(records).object.is_familiar
    /\ Len(task_queue) >= current_task_index + 3
    /\ task_queue[current_task_index + 2].stage = "IIA"
    /\ task_queue[current_task_index + 3].stage = "IIB"

\* C7 (as claimed): the queue holds at most one IIA task and at most one IIB
\* task for each Stage-I object
C7_AtMostOneFollowUpPair ==
    \A st \in {"IIA", "IIB"} :
        \A i, j \in DOMAIN task_queue :
            (/\ task_queue[i].stage = st /\ task_queue[j].stage = st
             /\ task_queue[i].object.id = task_queue[j].object.id) => i = j


\* C7 holds until a Stage-I task is answered 'yes' a second time
C7_Setup ==
    /\ running /\ task_active /\ current_task_index = 0
    /\ current_task.kind = "step1"
    /\ records # <<>> /\ Last(records).response = "yes"

\* a is b with some elements taken out
RECURSIVE IsSubseq(_, _)
IsSubseq(a, b) ==
    IF a = <<>> THEN TRUE
    ELSE IF b = <<>> THEN FALSE
    ELSE IF Head(a) = Head(b) THEN IsSubseq(Tail(a), Tail(b))
    ELSE IsSubseq(a, Tail(b))

\* C8: in a running session no task is removed from the queue and the
\* tasks keep their order; the cursor changes only by +1 in the timer's
\* advance step or by being set to the target of a jump
C8_QueueGrowsCursorAdvances ==
    [][running =>
        /\ Len(task_queue') >= Len(task_queue)
        /\ IsSubseq(task_queue, task_queue')
        /\ current_task_index' # current_task_index =>
            \/ Tick /\ current_task_index' = current_task_index + 1
            \/ \E i \in 0..(Len(task_queue) - 1) : Jump(i) /\ current_task_index' = i]_vars

C8_Witness ==
    /\ running /\ current_task_index >= 1
    /\ \E i \in DOMAIN task_queue : task_queue[i].stage = "IIA"
    /\ records # <<>> /\ ~Last(records).timeout

\* C9: jump(target) with 0 <= target < len(queue) in a running session
\* leaves the session in TaskActive with cursor = target and queue[target]
\* active, no intermission pending; any other jump changes nothing
C9_JumpActivatesTarget ==
    [][\A i \in -1..Len(task_queue) :
        Jump(i) =>
            IF running /\ 0 <= i /\ i < Len(task_queue)
            THEN /\ running' /\ task_active' /\ ~intermission_active'
                 /\ current_task_index' = i
                 /\ current_task' = task_queue[i + 1]
                 /\ task_queue' = task_queue
                 /\ task_elapsed_ms' = 0
            ELSE UNCHANGED vars]_vars

C9_Witness ==
    /\ running /\ task_active /\ current_task_index = 0
    /\ records # <<>> /\ ~Last(records).timeout

\* C10: a jump made while a task is active appends exactly one record for
\* that task, with timeout = true and response 'ne_repond_pas'; a jump made
\* during the intermission appends none
C10_JumpForcesTimeout ==
    [][\A i \in 0..(Len(task_queue) - 1) :
        (running /\ Jump(i)) =>
            IF task_active
            THEN /\ Len(records') = Len(records) + 1
                 /\ SubSeq(records', 1, Len(records)) = records
                 /\ Last(records').timeout
                 /\ Last(records').response = "ne_repond_pas"
                 /\ Last(records').task_id = current_task.task_id
            ELSE records' = records]_vars

C10_Witness ==
    /\ running /\ task_active /\ records # <<>>
    /\ Last(records).timeout
    /\ Last(records).actual_elapsed_ms < Last(records).duration_ms
    /\ Last(records).task_id # current_task.task_id

\* C11: stop() on a running session ends it: running, task_active and
\* intermission_active are false and ended_at is set; an active task gets
\* exactly one record, with timeout = true, and a session in its intermission
\* gets none; the buffer is drained once and the session is saved once, with
\* the drained messages.  stop() with no session running changes nothing.
C11_StopEndsSession ==
    [][StopIn(VRStopEnvs) =>
        IF running
        THEN /\ ~running' /\ ~task_active' /\ ~intermission_active'
             /\ session_ended_at' = "set"
             /\ IF task_active
                THEN /\ Len(records') = Len(records) + 1
                     /\ SubSeq(records', 1, Len(records)) = records
                     /\ Last(records').timeout
                     /\ Last(records').task_id = current_task.task_id
                ELSE records' = records
             /\ ws_drained' = Append(ws_drained, ws_messages)
             /\ save_calls' = save_calls + 1
             /\ Len(saved') = Len(saved) + 1
             /\ SubSeq(saved', 1, Len(saved)) = saved
             /\ Last(saved').session_id = session_id
             /\ Last(saved').ended_at = "set"
             /\ Last(saved').tasks = records'
             /\ Last(saved').vr_messages = ws_messages
        ELSE UNCHANGED vars]_vars

C11_Witness ==
    /\ ~running /\ session_ended_at = "set" /\ save_calls = 1 /\ Len(saved) = 1
    /\ Len(records) = 1 /\ Last(records).timeout
    /\ Last(records).actual_elapsed_ms < Last(records).duration_ms
    /\ saved[1].tasks = records
    /\ saved[1].vr_messages # <<>>

\* the timer step that finds the queue exhausted and calls on_stop
TickStops ==
    /\ running /\ intermission_active
    /\ intermission_elapsed_ms # NoPerf /\ intermission_elapsed_ms >= INTER_DELAY_MS
    /\ current_task_index + 1 >= Len(task_queue)

\* C12: whatever fails on the stop path (drain_messages or stop raising, the
\* sessions directory or the session file not writable), on_stop on a running
\* session finalizes the active task as a timeout, leaves running = false
\* with ended_at set, and calls _save_session
C12_StopSurvivesFailures ==
    [][(running /\ (StopIn(FaultEnvs) \/ (TickStops /\ TickIn(FaultEnvs)))) =>
        /\ ~running' /\ ~task_active' /\ ~intermission_active'
        /\ session_ended_at' = "set"
        /\ save_calls' = save_calls + 1
        /\ IF task_active
           THEN /\ Len(records') = Len(records) + 1
                /\ Last(records').timeout
                /\ Last(records').task_id = current_task.task_id
           ELSE records' = records]_vars

C12_Witness ==
    /\ ~running /\ session_ended_at = "set"
    /\ save_calls = 1 /\ saved = <<>>
    /\ ws_messages # <<>> /\ ws_drained = <<>> /\ ws_running
    /\ Len(records) = 1 /\ Last(records).timeout

\* C13: with a non-empty subject id and a non-empty queue, start() ends with
\* the first task of the queue active at cursor 0 whatever ws_server.start()
\* does (spawns a listener, finds no websockets library, raises), and no step
\* of the listener thread (binding or failing to bind included) touches the
\* session
C13_ListenerNeverBlocksStart ==
    [][/\ \A env \in VRStartEnvs :
            (~running /\ StartIn(<<"7">>, VRMode, env, MaxVRSessions)) =>
                /\ running' /\ task_active' /\ ~intermission_active'
                /\ current_task_index' = 0
                /\ task_queue' # <<>> /\ current_task' = task_queue'[1]
                /\ task_elapsed_ms' = 0
       /\ Listener =>
            UNCHANGED <<running, task_active, intermission_active, current_task_index,
                        current_task, task_queue, task_elapsed_ms, records>>]_vars

C13_Witness ==
    /\ next_uuid = 1 /\ running /\ task_active /\ current_task_index = 0
    /\ ws_threads = <<"dead">> /\ ~ws_running

\* the concatenation of a sequence of lists
RECURSIVE Flatten(_)
Flatten(ss) == IF ss = <<>> THEN <<>> ELSE Head(ss) \o Flatten(Tail(ss))

\* C14: whenever no drain is in progress, the lists returned by the drains so
\* far, in order, followed by the buffer are exactly the messages the handler
\* appended, in append order (none lost, none twice); and the buffer is
\* empty when a drain returns
C14_DrainIsAtomic ==
    /\ [](ws_pc \notin DrainPcs => Flatten(ws_drained) \o ws_messages = ws_accepted)
    /\ [][DrainReturnStep => ws_messages' = <<>>]_vars

C14_Witness ==
    /\ Len(ws_drained) = 2 /\ ws_drained[1] # <<>> /\ ws_drained[2] # <<>>
    /\ ws_pc = "idle"

\* C15 (as claimed): every message accepted during a session (up to the stop
\* of the listener at its end) is in that session's vr_messages, and the
\* vr_messages of a session hold no message accepted during another session
C15_TelemetryInOwnSession ==
    \A i \in DOMAIN saved :
        /\ \A k \in DOMAIN ws_accepted :
              ws_accepted[k].during = saved[i].session_id =>
                  \E j \in DOMAIN saved[i].vr_messages :
                      saved[i].vr_messages[j] = ws_accepted[k]
        /\ \A j \in DOMAIN saved[i].vr_messages :
              saved[i].vr_messages[j].during \in {0, saved[i].session_id}

\* a message accepted at the end of session 1 is saved with session 2
C15_CarriedOver ==
    /\ Len(saved) = 2 /\ saved[1].session_id = 1 /\ saved[2].session_id = 2
    /\ \E j \in DOMAIN saved[2].vr_messages : saved[2].vr_messages[j].during = 1
    /\ \A j \in DOMAIN saved[1].vr_messages : saved[1].vr_messages[j].during = 1

\* the position of a statement of stop(), its return last
StopRank(pc) ==
    CASE pc = "signal" -> 1 [] pc = "join" -> 2 [] pc = "clear_event" -> 3 [] OTHER -> 4

\* C16: stop() never blocks: it can always be entered, inside it the next
\* statement of the main thread can always be taken whatever the listener
\* thread does or fails to do, and every statement leads to a later one or
\* to the return
C16_StopNeverBlocks ==
    /\ [](ws_pc = "idle" => ENABLED StopEnter)
    /\ [](ws_pc \in StopPcs => ENABLED StopStep)
    /\ [][StopStep => StopRank(ws_pc') > StopRank(ws_pc)]_vars

C16_Witness ==
    /\ ws_pc = "idle" /\ ~ws_running /\ ws_accepted = <<>>
    /\ ws_thread # 0 /\ ws_threads[ws_thread] = "stopping"

\* C17: start() with an empty or whitespace-only subject field changes
\* nothing: running, session id, subject id, queue, cursor, records, scores
\* and the listener stay as they were
C17_BlankSubjectStartsNothing ==
    [][\A field \in SubjectInputs, mode \in TaskModes :
        (Strip(field) = <<>> /\ Start(field, mode)) => UNCHANGED vars]_vars

C17_Witness ==
    /\ ~running /\ session_ended_at = "set" /\ saved # <<>>
    /\ subject_id = <<"7">> /\ task_mode = "rappel_immediat"
    /\ task_queue # <<>> /\ records # <<>>
    /\ \E field \in SubjectInputs : field # <<>> /\ Strip(field) = <<>>


\* ---------------------------------------------------------------------
\* One task, presented and finalized: the evaluator over every kind of task
\* ---------------------------------------------------------------------
\* the tasks _build_tasks and the follow-up injection make from a day room, a
\* night room (each at every rank of the learning order, or at none), a
\* familiar and a new object and one trial of each ground truth
EvalTasks ==
    LET rooms == <<Room(1), Room(6)>>
        objects == {FamiliarObject(1), NewObject(1)}
        trials == {Trial("scene", ok) : ok \in BOOLEAN}
    IN  {Step1Task(o, 0) : o \in objects}
        \cup {FollowUps(o, rooms, sw)[i] : o \in objects, sw \in BOOLEAN, i \in 1..2}
        \cup {Step3Task(r) : r \in Range(rooms)}
        \cup {Step4Task(r, learning) : r \in Range(rooms),
                                       learning \in {<<>>} \cup {Rotated(RoomIds, k) : k \in 0..9}}
        \cup {Step5Task(t) : t \in trials}
        \cup {RiTask(t) : t \in trials} \cup {RiEndTask(t) : t \in trials}

\* the application showing task: the session runs, task is the only one queued
Presented(s, task) ==
    ShowTask([s EXCEPT !.running = TRUE,
                       !.data = [@ EXCEPT !.rooms = <<Room(1), Room(6)>>],
                       !.task_queue = <<task>>,
                       !.current_task_index = 0,
                       !.current_task = task], task)

\* what the finalization of the presented task leaves behind
Outcome(n) ==
    << [record |-> n.records[Len(n.records)],
        stage_scores |-> n.stage_scores,
        task_queue |-> n.task_queue] >>

\* the participant presses one of the buttons of the task
EvalChoice ==
    /\ eval.out = <<>> /\ ~eval.timeout
    /\ \E sw \in BOOLEAN :
          eval' = [eval EXCEPT !.out =
                      Outcome(OnChoice(Presented(Self, eval.task), eval.choice,
                                       [Calm EXCEPT !.swap = sw]))]
    /\ UNCHANGED <<RANDOM_MODE, assets, rng_memo, next_uuid, saved,
                   data, experiment_name, session_id, subject_id, task_mode,
                   session_ended_at, running, task_queue, current_task_index,
                   current_task, task_elapsed_ms, task_duration_ms, task_active,
                   intermission_active, intermission_elapsed_ms,
                   selected_choice_id, learning_room_order, iia_room_order,
                   records, stage_scores, ws_running, ws_threads, ws_messages,
                   ws_loop, ws_thread, ws_lock, ws_pc, ws_msgs,
                   save_calls, ws_accepted, ws_drained, shown>>

\* the task's time runs out with no button pressed
EvalTimeout ==
    /\ eval.out = <<>> /\ eval.timeout
    /\ \E sw \in BOOLEAN :
          eval' = [eval EXCEPT !.out =
                      Outcome(TimerTick([Presented(Self, eval.task)
                                            EXCEPT !.task_elapsed_ms = eval.task.duration_ms],
                                        [Calm EXCEPT !.swap = sw]))]
    /\ UNCHANGED <<RANDOM_MODE, assets, rng_memo, next_uuid, saved,
                   data, experiment_name, session_id, subject_id, task_mode,
                   session_ended_at, running, task_queue, current_task_index,
                   current_task, task_elapsed_ms, task_duration_ms, task_active,
                   intermission_active, intermission_elapsed_ms,
                   selected_choice_id, learning_room_order, iia_room_order,
                   records, stage_scores, ws_running, ws_threads, ws_messages,
                   ws_loop, ws_thread, ws_lock, ws_pc, ws_msgs,
                   save_calls, ws_accepted, ws_drained, shown>>

\* a task, and either a button of that task or the timeout
InitEval ==
    /\ RANDOM_MODE = "fixed" /\ assets = VRAssets /\ rng_memo = <<>>
    /\ next_uuid = 0 /\ saved = <<>>
    /\ InitApp
    /\ save_calls = 0 /\ ws_accepted = <<>> /\ ws_drained = <<>> /\ shown = 0
    /\ \E task \in EvalTasks :
          \/ \E choice \in Buttons(task) :
                eval = [task |-> task, choice |-> choice, timeout |-> FALSE, out |-> <<>>]
          \/ eval = [task |-> task, choice |-> None, timeout |-> TRUE, out |-> <<>>]

NextEval == EvalChoice \/ EvalTimeout

SpecEval == InitEval /\ [][NextEval]_vars

\* ---------------------------------------------------------------------
\* Sessions seen from the trial builder: catalogs with several rooms, objects
\* and trials, both randomization modes, two subjects
\* ---------------------------------------------------------------------
MaxBuilds == 2       \* uuid4() is drawn at most this many times

\* two rooms and one object, or one room, a familiar and a new object and a
\* correct and an incorrect scene per pool
InitBuild ==
    /\ RANDOM_MODE \in {"fixed", "per_session"}
    /\ assets \in {Catalog(2, 1, 0, 1, 0), Catalog(1, 1, 1, 1, 1)}
    /\ rng_memo = <<>> /\ next_uuid = 0 /\ saved = <<>>
    /\ InitApp
    /\ InitHistory

\* the operator starts a session for one of two subjects, the participant
\* answers the first task, the operator stops the session
NextBuild ==
    \/ \E field \in {<<"7">>, <<"8">>}, mode \in TaskModes :
            StartIn(field, mode, Calm, MaxBuilds)
    \/ \E c \in Buttons(current_task) \cap {"yes", "correct"} : Respond(c)
    \/ Stop

SpecBuild == InitBuild /\ [][NextBuild]_vars

\* ---------------------------------------------------------------------
\* One call of _pick_balanced_trials
\* ---------------------------------------------------------------------
MaxPool == 6         \* a pool holds at most this many trials of each ground truth

\* a pool of nc correct and ni incorrect trials, listed correct first or
\* incorrect first, and for each of the two shuffles one of some outcomes of
\* random.shuffle: every rotation, and the reversal
InitPick ==
    LET SomeShuffles(n) ==
            {Rotated([i \in 1..n |-> i], k) : k \in 0..Max(n - 1, 0)}
                \cup {[i \in 1..n |-> n + 1 - i]}
        Pools ==
            {[i \in 1..(nc + ni) |-> Trial(i, i <= nc)] : nc, ni \in 0..MaxPool}
                \cup {[i \in 1..(nc + ni) |-> Trial(i, i > ni)] : nc, ni \in 0..MaxPool}
    IN  /\ RANDOM_MODE = "fixed" /\ assets = VRAssets /\ rng_memo = <<>>
        /\ next_uuid = 0 /\ saved = <<>>
        /\ InitApp
        /\ save_calls = 0 /\ ws_accepted = <<>> /\ ws_drained = <<>> /\ shown = 0
        /\ \E trials \in Pools :
              \E pc \in SomeShuffles(Len(TrialsWith(trials, TRUE))),
                 pi \in SomeShuffles(Len(TrialsWith(trials, FALSE))) :
                    eval = [trials |-> trials, pc |-> pc, pi |-> pi, out |-> <<>>]

\* the call returns
Pick ==
    /\ eval.out = <<>>
    /\ eval' = [eval EXCEPT !.out = <<PickBalancedTrials(eval.trials, eval.pc, eval.pi)>>]
    /\ UNCHANGED <<RANDOM_MODE, assets, rng_memo, next_uuid, saved,
                   data, experiment_name, session_id, subject_id, task_mode,
                   session_ended_at, running, task_queue, current_task_index,
                   current_task, task_elapsed_ms, task_duration_ms, task_active,
                   intermission_active, intermission_elapsed_ms,
                   selected_choice_id, learning_room_order, iia_room_order,
                   records, stage_scores, ws_running, ws_threads, ws_messages,
                   ws_loop, ws_thread, ws_lock, ws_pc, ws_msgs,
                   save_calls, ws_accepted, ws_drained, shown>>

SpecPick == InitPick /\ [][Pick]_vars

\* ---------------------------------------------------------------------
\* Properties of the evaluator
\* ---------------------------------------------------------------------
\* C18: a finalized recognition (Stage I) task is correct exactly when the
\* response is 'yes' for a familiar object or 'no' for a new one; its
\* category is hit (yes, familiar), false_alarm (yes, new), miss (no,
\* familiar) or correct_rejection (no, new); and a familiar object answered
\* 'yes' is a hit, correct, with the IIA and IIB follow-ups queued right
\* after it
C18_RecognitionScoring ==
    (eval.out # <<>> /\ eval.task.kind = "step1") =>
        LET obj == eval.task.object
            rec == eval.out[1].record
            yes == rec.response = "yes"
            no == rec.response = "no"
        IN  /\ rec.is_correct = "True"
                  <=> ((yes /\ obj.is_familiar) \/ (no /\ ~obj.is_familiar))
            /\ (yes /\ obj.is_familiar) => rec.response_category = "hit"
            /\ (yes /\ ~obj.is_familiar) => rec.response_category = "false_alarm"
            /\ (no /\ obj.is_familiar) => rec.response_category = "miss"
            /\ (no /\ ~obj.is_familiar) => rec.response_category = "correct_rejection"
            /\ (yes /\ obj.is_familiar) =>
                  /\ Len(eval.out[1].task_queue) = 3
                  /\ eval.out[1].task_queue[1] = eval.task
                  /\ eval.out[1].task_queue[2].kind = "step2_where"
                  /\ eval.out[1].task_queue[2].stage = "IIA"
                  /\ eval.out[1].task_queue[2].object = obj
                  /\ eval.out[1].task_queue[3].kind = "step2_spatial"
                  /\ eval.out[1].task_queue[3].stage = "IIB"
                  /\ eval.out[1].task_queue[3].object = obj

C18_Witness ==
    /\ eval.out # <<>> /\ eval.task.kind = "step1"
    /\ eval.task.object.is_familiar /\ eval.choice = "yes"
    /\ eval.out[1].record.response_category = "hit"
    /\ eval.out[1].record.is_correct = "True"
    /\ Len(eval.out[1].task_queue) = 3

\* C19 (as claimed): every record of a room-locate (IIA) task for a new
\* object has a null verdict, whatever the response, and finalizing such a
\* task leaves stage_scores['IIA'].total as it was; the record of a
\* room-locate task for a familiar object is correct exactly when the
\* response is the object's room id
C19_RoomLocateScoring ==
    /\ [](\A i \in DOMAIN records :
            records[i].kind = "step2_where" =>
                IF records[i].object.is_familiar
                THEN records[i].is_correct = "True"
                        <=> records[i].response = records[i].object.room_id
                ELSE records[i].is_correct = "None")
    /\ [][(/\ Len(records') = Len(records) + 1
           /\ records'[Len(records')].kind = "step2_where"
           /\ ~records'[Len(records')].object.is_familiar)
          => stage_scores'["IIA"].total = stage_scores["IIA"].total]_vars

\* a new object was taken for a known one, its room-locate follow-up was
\* answered with a room, judged false and counted in the IIA total
C19_NovelScoredFalse ==
    /\ Len(records) = 2
    /\ records[1].kind = "step1" /\ records[1].response_category = "false_alarm"
    /\ records[2].kind = "step2_where" /\ ~records[2].object.is_familiar
    /\ records[2].response = "room1" /\ records[2].is_correct = "False"
    /\ stage_scores["IIA"].total = 1

\* C20 (as claimed): for every kind of task, a 'je_ne_sais_pas' response
\* or a timeout ('ne_repond_pas') is judged false when the task has a correct
\* answer, and null when it has none (a follow-up for a new object, or a
\* room-order task with no correct_order)
C20_SentinelScoring ==
    (eval.out # <<>> /\ eval.out[1].record.response \in {"je_ne_sais_pas", "ne_repond_pas"}) =>
        LET task == eval.task
            no_answer ==
                \/ task.kind \in {"step2_where", "step2_spatial"} /\ ~task.object.is_familiar
                \/ task.kind = "step4_order" /\ task.correct_order = NoOrder
        IN  eval.out[1].record.is_correct = IF no_answer THEN "None" ELSE "False"

\* the room-locate follow-up of a new object, left unanswered, is judged false
C20_NovelSentinelFalse ==
    /\ eval.out # <<>> /\ eval.timeout
    /\ eval.task.kind = "step2_where" /\ ~eval.task.object.is_familiar
    /\ eval.out[1].record.response = "ne_repond_pas"
    /\ eval.out[1].record.is_correct = "False"
    /\ eval.out[1].stage_scores["IIA"].total = 1

\* C21: the spatial-position (IIB) follow-up of a new object offers two
\* choices, neither flagged correct, its verdict is null whatever the
\* response and stage_scores['IIB'] stays as it was; the follow-up of a
\* familiar object offers two choices of which exactly one is flagged
\* correct, and is correct exactly when the response is that choice's id
C21_SpatialScoring ==
    (eval.out # <<>> /\ eval.task.kind = "step2_spatial") =>
        LET task == eval.task
            rec == eval.out[1].record
            flagged == {i \in DOMAIN task.choices : task.choices[i].is_correct}
        IN  /\ Len(task.choices) = 2
            /\ task.choices[1].id # task.choices[2].id
            /\ IF task.object.is_familiar
               THEN /\ Cardinality(flagged) = 1
                    /\ rec.is_correct = "True"
                          <=> \E i \in flagged : rec.response = task.choices[i].id
                    /\ rec.is_correct \in {"True", "False"}
               ELSE /\ flagged = {}
                    /\ rec.is_correct = "None"
                    /\ eval.out[1].stage_scores = ZeroScores

C21_Witness ==
    /\ eval.out # <<>> /\ eval.task.kind = "step2_spatial"
    /\ ~eval.task.object.is_familiar /\ eval.choice = "bad2"
    /\ eval.out[1].record.is_correct = "None"
    /\ eval.out[1].record.response_category = "no_correct_answer"
    /\ eval.out[1].stage_scores["IIB"].total = 0

\* C22: for a room-order task whose room has rank k in 1..10 and a response
\* r among '1'..'10', the verdict is true exactly when r = k, and the
\* record's error_distance is |r - k| whether the answer is right or wrong
C22_RoomOrderScoring ==
    (eval.out # <<>> /\ eval.task.kind = "step4_order") =>
        \A k, r \in 1..10 :
            (eval.task.correct_order = k /\ eval.out[1].record.response = Numerals[r]) =>
                /\ eval.out[1].record.is_correct = (IF r = k THEN "True" ELSE "False")
                /\ eval.out[1].record.error_distance = (IF r >= k THEN r - k ELSE k - r)

C22_Witness ==
    /\ eval.out # <<>> /\ eval.task.kind = "step4_order"
    /\ eval.task.correct_order = 4 /\ eval.choice = "7"
    /\ eval.out[1].record.is_correct = "False"
    /\ eval.out[1].record.error_distance = 3

\* C23: from a pool with at least 5 correct and at least 5 incorrect trials
\* _pick_balanced_trials returns exactly 5 correct and 5 incorrect trials,
\* all distinct members of the pool; from any other pool it returns every
\* trial of the pool exactly once; and the call always returns
C23_PickBalanced ==
    /\ eval.out = <<>> => ENABLED Pick
    /\ eval.out # <<>> =>
        LET pool == eval.trials
            out == eval.out[1]
            n(seq, ok) == Cardinality({i \in DOMAIN seq : seq[i].is_correct = ok})
            distinct == \A i, j \in DOMAIN out : out[i] = out[j] => i = j
        IN  IF n(pool, TRUE) >= 5 /\ n(pool, FALSE) >= 5
            THEN /\ n(out, TRUE) = 5 /\ n(out, FALSE) = 5 /\ Len(out) = 10
                 /\ distinct
                 /\ Range(out) \subseteq Range(pool)
            ELSE /\ Len(out) = Len(pool)
                 /\ distinct
                 /\ Range(out) = Range(pool)

C23_Witness ==
    /\ eval.out # <<>>
    /\ Len(TrialsWith(eval.trials, TRUE)) = 6
    /\ Len(TrialsWith(eval.trials, FALSE)) = 5
    /\ Len(eval.out[1]) = 10
    /\ eval.out[1][1].id = 2

\* ---------------------------------------------------------------------
\* Properties of the trial builder
\* ---------------------------------------------------------------------
\* C24 (as claimed): whatever the catalog and the outcomes of the shuffles,
\* the learning room order and the IIA room order left by a recall-mode
\* build are different sequences
C24_OrdersDiffer ==
    (running /\ task_mode = "recall") => learning_room_order # iia_room_order

\* a recall session over a catalog with a single room: both orders are that room
C24_SingleRoomSame ==
    /\ running /\ task_mode = "recall"
    /\ Len(data.rooms) = 1
    /\ learning_room_order = <<"room1">> /\ iia_room_order = <<"room1">>

\* C25: in fixed-seed mode, a session started in the same task mode as the
\* session before it gets the queue that session was built with (the same
\* tasks in the same order with the same expected answers, the follow-ups
\* spliced in since then set aside) and the same room orders, whatever the
\* subject ids, the session ids and the answers given in between
C25_FixedSeedDeterminism ==
    [][(/\ RANDOM_MODE = "fixed"
        /\ ~running /\ running'
        /\ next_uuid >= 1 /\ task_mode' = task_mode)
       => /\ task_queue' = FilterSeq(task_queue,
                                {t \in Range(task_queue) :
                                    t.kind \notin {"step2_where", "step2_spatial"}})
          /\ learning_room_order' = learning_room_order
          /\ iia_room_order' = iia_room_order]_vars

C25_Witness ==
    /\ RANDOM_MODE = "fixed" /\ running /\ next_uuid = 2 /\ session_id = 2
    /\ task_mode = "recall" /\ Len(data.rooms) = 2
    /\ Len(saved) = 1 /\ saved[1].subject_id # subject_id
    /\ saved[1].tasks # <<>>
    /\ saved[1].tasks[1].kind = "step1" /\ saved[1].tasks[1].response = "yes"

\* C26 (as claimed): in per-session mode the queue of a session is built
\* from the seed made of the experiment name, the subject id and the id of
\* that very session, and from no other seed
C26_SeedHasOwnSessionId ==
    [][(RANDOM_MODE = "per_session" /\ ~running /\ running')
       => LET own == <<<<experiment_name', subject_id', session_id'>>, task_mode'>>
          IN  /\ own \in DOMAIN rng_memo'
              /\ (DOMAIN rng_memo') \ (DOMAIN rng_memo) \subseteq {own}]_vars

\* the second session of a subject runs on a queue seeded with the id of the
\* first session
C26_SeededWithPreviousId ==
    /\ RANDOM_MODE = "per_session" /\ running /\ session_id = 2
    /\ Len(saved) = 1 /\ saved[1].session_id = 1 /\ saved[1].subject_id = subject_id
    /\ <<<<experiment_name, subject_id, 1>>, task_mode>> \in DOMAIN rng_memo
    /\ <<<<experiment_name, subject_id, 2>>, task_mode>> \notin DOMAIN rng_memo

\* C27: in the queue of a recall-mode session the Stage IV tasks come in
\* the room order of the Stage III tasks, one of each per room of the
\* catalog, and the correct_order of a Stage IV task is the 1-based position
\* of its room in the learning order, or unset when the room is not in it
C27_StageIVFollowsStageIII ==
    (task_mode = "recall") =>
        LET iii == FilterSeq(task_queue, {t \in Range(task_queue) : t.kind = "step3_daynight"})
            iv == FilterSeq(task_queue, {t \in Range(task_queue) : t.kind = "step4_order"})
            learning == learning_room_order
        IN  /\ Len(iii) = Len(data.rooms) /\ Len(iv) = Len(data.rooms)
            /\ {iii[i].room : i \in DOMAIN iii} = Range(data.rooms)
            /\ \A i \in DOMAIN iv :
                /\ iv[i].room = iii[i].room
                /\ iv[i].stage = "IV" /\ iii[i].stage = "III"
                /\ IF \E j \in DOMAIN learning : learning[j] = iv[i].room.id
                   THEN /\ iv[i].correct_order \in DOMAIN learning
                        /\ learning[iv[i].correct_order] = iv[i].room.id
                        /\ \A j \in 1..(iv[i].correct_order - 1) : learning[j] # iv[i].room.id
                   ELSE iv[i].correct_order = NoOrder

C27_Witness ==
    /\ running /\ task_mode = "recall" /\ Len(data.rooms) = 2
    /\ learning_room_order = <<"room1", "room2">>
    /\ \E i \in DOMAIN task_queue :
          /\ i + 3 \in DOMAIN task_queue
          /\ task_queue[i].kind = "step3_daynight" /\ task_queue[i].room.id = "room2"
          /\ task_queue[i + 1].kind = "step3_daynight" /\ task_queue[i + 1].room.id = "room1"
          /\ task_queue[i + 2].kind = "step4_order" /\ task_queue[i + 2].correct_order = 2
          /\ task_queue[i + 3].kind = "step4_order" /\ task_queue[i + 3].correct_order = 1

\* C28: the queue a recall-mode start builds is the Stage I tasks (one per
\* familiar and per new object), then the Stage III tasks and the Stage IV
\* tasks (one of each per room), then the Stage V tasks, then the RI_END
\* tasks; a Stage V task's is_correct is the negation of its trial's flag in
\* the catalog, an RI_END or RI task's is_correct is the flag itself; the
\* queue a rappel_immediat-mode start builds holds Stage RI tasks only
C28_BuildShape ==
    [][(~running /\ running') =>
        LET q == task_queue'
            cat == data'
            Rank(stage) == CASE stage = "I" -> 1 [] stage = "III" -> 2 [] stage = "IV" -> 3
                             [] stage = "V" -> 4 [] stage = "RI_END" -> 5 [] OTHER -> 0
            Of(stage) == {i \in DOMAIN q : q[i].stage = stage}
            Flag(trials, id) == (CHOOSE t \in Range(trials) : t.id = id).is_correct
        IN  IF task_mode' = "rappel_immediat"
            THEN \A i \in DOMAIN q :
                    /\ q[i].stage = "RI" /\ q[i].kind = "rappel_immediat"
                    /\ q[i].is_correct = OptBool(Flag(cat.rappel_immediat_trials, q[i].task_id[2]))
            ELSE /\ \A i \in DOMAIN q : Rank(q[i].stage) >= 1
                 /\ \A i, j \in DOMAIN q : i < j => Rank(q[i].stage) <= Rank(q[j].stage)
                 /\ \A o \in Range(cat.familiar_objects) \cup Range(cat.new_objects) :
                        Cardinality({i \in Of("I") : q[i].object = o}) = 1
                 /\ Cardinality(Of("I")) = Len(cat.familiar_objects) + Len(cat.new_objects)
                 /\ \A r \in Range(cat.rooms) :
                        /\ Cardinality({i \in Of("III") : q[i].room = r}) = 1
                        /\ Cardinality({i \in Of("IV") : q[i].room = r}) = 1
                 /\ Cardinality(Of("III")) = Len(cat.rooms)
                 /\ Cardinality(Of("IV")) = Len(cat.rooms)
                 /\ \A i \in Of("V") :
                        q[i].is_correct = OptBool(~Flag(cat.step5_trials, q[i].task_id[2]))
                 /\ \A i \in Of("RI_END") :
                        q[i].is_correct = OptBool(Flag(cat.rappel_immediat_trials, q[i].task_id[2]))
       ]_vars

C28_Witness ==
    /\ running /\ task_mode = "recall" /\ records = <<>>
    /\ Len(data.familiar_objects) = 1 /\ Len(data.new_objects) = 1
    /\ Len(task_queue) = 8
    /\ [i \in 1..8 |-> task_queue[i].stage]
          = <<"I", "I", "III", "IV", "V", "V", "RI_END", "RI_END">>
    /\ task_queue[5].task_id[2] = "incorrect_1" /\ task_queue[5].is_correct = "True"
    /\ task_queue[7].task_id[2] = "ri_incorrect_1" /\ task_queue[7].is_correct = "False"

\* ---------------------------------------------------------------------
\* Properties of the session driver, continued
\* ---------------------------------------------------------------------
\* C29: a timer tick during an intermission changes nothing while less
\* than INTER_DELAY_MS has elapsed since the finalization; once the delay
\* has elapsed it advances the cursor by exactly one and activates the task
\* at the cursor, or, when the cursor has reached the length of the queue,
\* ends the session without activating a task
C29_IntermissionTick ==
    [][(Tick /\ running /\ intermission_active /\ intermission_elapsed_ms # NoPerf) =>
        IF intermission_elapsed_ms < 3000
        THEN UNCHANGED vars
        ELSE /\ current_task_index' = current_task_index + 1
             /\ task_queue' = task_queue
             /\ records' = records
             /\ ~intermission_active'
             /\ IF current_task_index + 1 < Len(task_queue)
                THEN /\ running' /\ task_active'
                     /\ current_task' = task_queue[current_task_index + 2]
                     /\ task_elapsed_ms' = 0
                     /\ task_duration_ms' = current_task'.duration_ms
                ELSE /\ ~running' /\ ~task_active'
                     /\ session_ended_at' = "set"
                     /\ current_task' = current_task]_vars

C29_Witness ==
    /\ ~running /\ session_ended_at = "set"
    /\ task_queue # <<>> /\ current_task_index = Len(task_queue)
    /\ Len(records) = Len(task_queue)
    /\ \A i \in DOMAIN records : ~records[i].timeout
    /\ Len(saved) = 1

\* C30 (as claimed): in every state of a session the task_id values of the
\* queue are pairwise distinct
C30_TaskIdsDistinct ==
    running => \A i, j \in DOMAIN task_queue :
                    task_queue[i].task_id = task_queue[j].task_id => i = j

\* the follow-ups of one object are queued twice: the operator jumped back
\* to its Stage-I task and the participant answered 'yes' a second time
C30_FollowUpsTwice ==
    /\ running /\ Len(records) = 2
    /\ records[1].task_id = records[2].task_id
    /\ records[1].response = "yes" /\ records[2].response = "yes"
    /\ Cardinality({i \in DOMAIN task_queue : task_queue[i].kind = "step2_where"
                        /\ task_queue[i].task_id = <<"step2_where", records[1].object.id, 0>>}) = 2

(***************************************************************************)
(* Response records, cursor, pacing, telemetry offsets, listener frame,    *)
(* record counts, categories and session isolation                         *)
(***************************************************************************)

\* C31: every response record carries the response time clamped to the task's
\* nominal duration (0 <= response_duration <= duration_ms) next to the
\* unclamped elapsed time (actual_elapsed >= response_duration, neither negative)
C31_RecordCarriesBothTimes ==
    \A i \in 1..Len(records) :
        LET r == records[i]
        IN  /\ "actual_elapsed_ms" \in DOMAIN r
            /\ r.actual_elapsed_ms >= 0
            /\ "response_duration_ms" \in DOMAIN r
            /\ 0 <= r.response_duration_ms
            /\ r.response_duration_ms <= r.duration_ms
            /\ r.actual_elapsed_ms >= r.response_duration_ms

\* a record whose only time field is the unclamped elapsed time, which
\* exceeds the nominal duration
C31_OnlyElapsedCarried ==
    \E i \in 1..Len(records) :
        /\ "response_duration_ms" \notin DOMAIN records[i]
        /\ records[i].actual_elapsed_ms > records[i].duration_ms

\* C32: whenever a task is active the cursor is inside the queue and the
\* active task is the queue's element at the cursor, after any sequence of
\* start, respond, timer tick, jump and follow-up insertion
C32_CursorValid ==
    task_active =>
        /\ 0 <= current_task_index
        /\ current_task_index < Len(task_queue)
        /\ current_task = task_queue[current_task_index + 1]

\* an inserted follow-up is the active task, at the cursor
C32_Witness ==
    /\ running /\ task_active
    /\ current_task.kind = "step2_spatial"
    /\ current_task = task_queue[current_task_index + 1]
    /\ Len(records) >= 2

\* ---------------------------------------------------------------------
\* Sessions paced by the timer: no cap on the record log, a budget of operator
\* jumps and of responses (counted in eval), the 50 ms timer of _timer_loop
\* and the clock fair
\* ---------------------------------------------------------------------
MaxJumps == 1        \* the operator jumps at most this many times
MaxResponses == 1    \* the participant presses a button at most this many times

\* time passes up to the deadline of the active task: the timer, which fires
\* every 50 ms, is the next to act once the deadline is reached
Pace ==
    /\ task_elapsed_ms # NoPerf => task_elapsed_ms < task_duration_ms
    /\ Advance

InitLive ==
    /\ RANDOM_MODE = "fixed"
    /\ assets \in SessionAssets
    /\ rng_memo = <<>> /\ next_uuid = 0 /\ saved = <<>>
    /\ InitApp
    /\ save_calls = 0 /\ ws_accepted = <<>> /\ ws_drained = <<>> /\ shown = 0
    /\ eval = [jumps |-> 0, responses |-> 0]

NextLive ==
    \/ \E field \in SubjectInputs, mode \in TaskModes : Start(field, mode)
    \/ \E n \in {OnStop(Self, Calm)} : Becomes(n)
    \/ \E n \in {TimerTick(Self, Calm)} : Becomes(n)
    \/ /\ eval.responses < MaxResponses
       /\ \E c \in Buttons(current_task) \cap PressedTokens(current_task), env \in ShuffleEnvs :
            \E n \in {[OnChoice(Self, c, env) EXCEPT !.eval.responses = @ + 1]} : Becomes(n)
    \/ /\ eval.jumps < MaxJumps
       /\ \E i \in -1..Len(task_queue) :
            \E n \in {[JumpToQuestion(Self, i, Calm) EXCEPT !.eval.jumps = @ + 1]} : Becomes(n)
    \/ Pace

\* _timer_loop calls _timer_tick every 50 ms for as long as the page lives,
\* and time passes
SpecLive ==
    /\ InitLive /\ [][NextLive]_vars
    /\ WF_vars(\E n \in {TimerTick(Self, Calm)} : Becomes(n))
    /\ WF_vars(Pace)

\* C33: with the timer firing fairly and finitely many operator jumps, every
\* started session reaches Ended (running cleared) even when no response is
\* ever given; a tick at or after the deadline of the active task finalizes
\* it, and a tick at or after the inter-task delay ends the intermission
C33_SessionEnds ==
    /\ running ~> ~running
    /\ [][(\E n \in {TimerTick(Self, Calm)} : Becomes(n)) =>
            /\ (running /\ task_active /\ task_elapsed_ms >= task_duration_ms)
                    => (~task_active' /\ Len(records') = Len(records) + 1)
            /\ (running /\ intermission_active /\ intermission_elapsed_ms >= INTER_DELAY_MS)
                    => ~intermission_active']_vars

\* a session ended by running off the end of its queue with every record a
\* timeout: no response was given
C33_Witness ==
    /\ ~running /\ Len(saved) = 1
    /\ current_task_index = Len(task_queue)
    /\ Len(records) = Len(task_queue)
    /\ Len(records) >= 1
    /\ \A i \in 1..Len(records) : records[i].timeout

\* C34: in a running session a step of the timer, of the participant or of
\* the start and stop buttons (any step but an operator jump) activates a
\* task only from an intermission that has lasted at least the inter-task
\* delay of 3000 ms since the previous task's finalization; from the
\* finalization to that activation the session is in intermission with no
\* task active
C34_DelayBeforeNextTask ==
    /\ [](running => (task_active \/ intermission_active))
    /\ [](intermission_active => ~task_active /\ intermission_elapsed_ms # NoPerf)
    /\ [][(/\ running
           /\ task_active' /\ task_elapsed_ms' = 0
           /\ (~task_active \/ records' # records)
           /\ \/ Tick \/ Stop \/ Advance
              \/ \E c \in Buttons(current_task) \cap PressedTokens(current_task) : Respond(c)
              \/ \E field \in SubjectInputs, mode \in TaskModes : Start(field, mode))
          => (/\ ~task_active /\ intermission_active
              /\ intermission_elapsed_ms >= 3000
              /\ records' = records)]_vars
    /\ [][(task_active /\ ~task_active' /\ running') =>
            (intermission_active' /\ intermission_elapsed_ms' = 0)]_vars

\* the second task of a session is active after an answered first task and
\* an intermission ended by the timer
C34_Witness ==
    /\ running /\ task_active /\ current_task_index = 1
    /\ Len(records) = 1 /\ ~records[1].timeout

\* ---------------------------------------------------------------------
\* One call of _save_session: the telemetry entries of the session file
\* ---------------------------------------------------------------------
MaxTelemetry == 3    \* the drained buffer holds at most this many messages
MaxPerf == 4         \* perf_counter() readings are 0..MaxPerf clock steps
PerfPerMs == 2       \* clock steps in one millisecond

\* mutant: the offset is not clamped at zero
MutVrSerializedNoClamp(vr_msgs, start_perf) ==
    [i \in DOMAIN vr_msgs |->
        [received_at |-> vr_msgs[i].received_at,
         relative_ms |-> (vr_msgs[i].received_perf - start_perf) \div PerfPerMs,
         payload |-> vr_msgs[i].payload]]

\* _save_session: vr_serialized; relative_ms = int(max(0.0, (rp - start_perf) * 1000.0))
VrSerialized(vr_msgs, start_perf) ==
    [i \in DOMAIN vr_msgs |->
        [received_at |-> vr_msgs[i].received_at,
         relative_ms |-> Max(0, vr_msgs[i].received_perf - start_perf) \div PerfPerMs,
         payload |-> vr_msgs[i].payload]]

\* the buffer as _handler filled it: the k-th message accepted carries the
\* k-th clock reading, and the clock never runs backwards; the start marker
\* is any reading, before, between or after the receipts
InitSave ==
    /\ RANDOM_MODE = "fixed" /\ assets = VRAssets /\ rng_memo = <<>>
    /\ next_uuid = 0 /\ saved = <<>>
    /\ InitApp
    /\ save_calls = 0 /\ ws_accepted = <<>> /\ ws_drained = <<>> /\ shown = 0
    /\ \E n \in 0..MaxTelemetry, start_perf \in 0..MaxPerf :
          \E perf \in [1..n -> 0..MaxPerf] :
              /\ \A i, j \in 1..n : i <= j => perf[i] <= perf[j]
              /\ eval = [vr_msgs |-> [i \in 1..n |-> [received_at |-> i,
                                                      received_perf |-> perf[i],
                                                      payload |-> i]],
                         start_perf |-> start_perf, out |-> <<>>]

\* the loop over vr_msgs has run
Serialize ==
    /\ eval.out = <<>>
    /\ eval' = [eval EXCEPT !.out = <<VrSerialized(eval.vr_msgs, eval.start_perf)>>]
    /\ UNCHANGED <<RANDOM_MODE, assets, rng_memo, next_uuid, saved,
                   data, experiment_name, session_id, subject_id, task_mode,
                   session_ended_at, running, task_queue, current_task_index,
                   current_task, task_elapsed_ms, task_duration_ms, task_active,
                   intermission_active, intermission_elapsed_ms,
                   selected_choice_id, learning_room_order, iia_room_order,
                   records, stage_scores, ws_running, ws_threads, ws_messages,
                   ws_loop, ws_thread, ws_lock, ws_pc, ws_msgs,
                   save_calls, ws_accepted, ws_drained, shown>>

SpecSave == InitSave /\ [][Serialize]_vars

\* C35: every telemetry entry of the session log has a relative_ms that is
\* the whole number of milliseconds from the session's start marker to the
\* message's receipt, never negative, 0 for a message received before the
\* marker; the entries are the drained messages in their receipt order
C35_RelativeMs ==
    eval.out # <<>> =>
        LET out == eval.out[1]
            msgs == eval.vr_msgs
        IN  /\ Len(out) = Len(msgs)
            /\ \A i \in DOMAIN out :
                  LET offset == msgs[i].received_perf - eval.start_perf
                  IN  /\ out[i].relative_ms >= 0
                      /\ offset <= 0 => out[i].relative_ms = 0
                      /\ offset >= 0 =>
                            /\ out[i].relative_ms * PerfPerMs <= offset
                            /\ offset < (out[i].relative_ms + 1) * PerfPerMs
                      /\ out[i].payload = msgs[i].payload
                      /\ out[i].received_at = msgs[i].received_at
            /\ \A i, j \in DOMAIN out :
                  i <= j => /\ out[i].received_at <= out[j].received_at
                            /\ out[i].relative_ms <= out[j].relative_ms

\* a log with a message received before the start marker, clamped to 0, and
\* a later one received a whole millisecond or more after it
C35_Witness ==
    /\ eval.out # <<>> /\ Len(eval.out[1]) >= 2
    /\ eval.vr_msgs[1].received_perf < eval.start_perf
    /\ eval.out[1][1].relative_ms = 0
    /\ eval.out[1][Len(eval.out[1])].relative_ms >= 1

\* the session state: running flag, cursor, task queue, active and
\* intermission flags, records, stage scores
SessionPart(s) ==
    <<s.running, s.current_task_index, s.task_queue, s.current_task, s.task_active,
      s.intermission_active, s.records, s.stage_scores>>

\* C36: the listener touches the session through its message buffer only:
\* in every state of a session, start(), stop(), drain_messages() and the
\* handling of a message leave the running flag, the cursor, the task queue,
\* the active and intermission flags, the records and the stage scores as
\* they are, and so does every step of the listener thread
C36_ListenerFrame ==
    /\ [](\A after \in {WsStart(Self, o) : o \in {"spawn", "no_library", "raises"}}
                    \cup {WsStop(Self, joined) : joined \in BOOLEAN}
                    \cup {WsDrain(Self), HandlerAppend(Self, Accepting)} :
            SessionPart(after) = SessionPart(Self))
    /\ [][Listener => SessionPart(Self)' = SessionPart(Self)]_vars

\* a message was handled while a task was active and the listener serving
C36_Witness ==
    /\ running /\ task_active /\ ws_running
    /\ ws_messages # <<>>
    /\ ws_messages[Len(ws_messages)].during = session_id
    /\ WsStop(Self, TRUE) # Self /\ WsDrain(Self) # Self

\* C37 (as claimed): once stop() has returned, and until start() is called
\* again, no listener thread started before is accepting messages, whatever
\* the interleaving of start(), the thread's bind-and-set-running step and
\* stop(); and at no time are two listener threads alive
C37_StopEndsListeners ==
    /\ eval = "stop_returned" => Serving(Self) = {}
    /\ Cardinality({i \in DOMAIN ws_threads :
                        ws_threads[i] \in {"starting", "binding", "serving", "stopping"}}) <= 1

\* stop() found the event clear and returned at once; the thread started
\* before it then bound the port and its handler holds a message
C37_ListenerOutlivesStop ==
    /\ eval = "stop_returned" /\ ws_pc = "idle"
    /\ Serving(Self) # {} /\ ws_running
    /\ ws_lock = "handler"

\* C38: in every state the number of records of the session is the number
\* of task activations since its start, less one when a task is active:
\* every activation that has ended, by response, timeout, jump or stop, left
\* exactly one record
C38_OneRecordPerActivation ==
    Len(records) = shown - (IF task_active THEN 1 ELSE 0)

\* an operator-stopped session whose activations ended in each of the four
\* ways: a response, a timeout at the deadline, a jump, and the stop itself
\* before the deadline of the last task
C38_Witness ==
    /\ ~running /\ Len(saved) = 1 /\ current_task_index < Len(task_queue)
    /\ eval.jumps = 1 /\ shown >= 4 /\ Len(records) = shown
    /\ \E i \in DOMAIN records : ~records[i].timeout
    /\ \E i \in DOMAIN records :
            records[i].timeout /\ records[i].actual_elapsed_ms >= records[i].duration_ms
    /\ \E i \in 1..(Len(records) - 1) :
            records[i].timeout /\ records[i].actual_elapsed_ms < records[i].duration_ms
    /\ records[Len(records)].timeout
    /\ records[Len(records)].actual_elapsed_ms < records[Len(records)].duration_ms

\* C39 (as claimed): in every record the category is one of hit,
\* correct_rejection, correct_room, correct_position, correct_time,
\* correct_order, correct_scene exactly when the verdict is true; the
\* category is no_response exactly when the record is a timeout, dont_know
\* exactly when the response is 'je_ne_sais_pas', and no_correct_answer only
\* when the verdict is null
C39_CategoryAgreesWithVerdict ==
    eval.out # <<>> =>
        LET r == eval.out[1].record
        IN  /\ r.response_category \in {"hit", "correct_rejection", "correct_room",
                                        "correct_position", "correct_time",
                                        "correct_order", "correct_scene"}
                    <=> r.is_correct = "True"
            /\ r.response_category = "no_response" <=> r.timeout
            /\ r.response_category = "dont_know" <=> r.response = "je_ne_sais_pas"
            /\ r.response_category = "no_correct_answer" => r.is_correct = "None"

\* the room-locate follow-up of a new object answered with a room: the
\* category says there is no correct answer and the verdict is false
C39_NoCorrectAnswerJudgedFalse ==
    /\ eval.out # <<>> /\ ~eval.timeout
    /\ eval.task.kind = "step2_where" /\ ~eval.task.object.is_familiar
    /\ eval.out[1].record.response = "room1"
    /\ eval.out[1].record.response_category = "no_correct_answer"
    /\ eval.out[1].record.is_correct = "False"

\* C40: a start() that succeeds after a session has ended leaves an empty
\* record list, every stage score at total 0 and correct 0, the cursor at 0
\* on a queue built anew (no follow-up of the earlier session in it) and a
\* session id no earlier session had; a saved log holds the records made
\* since that start, no more than one per activation of the session;
\* start() on a running session changes nothing
C40_SessionsIsolated ==
    /\ [][(~running /\ running') =>
            /\ records' = <<>>
            /\ \A st \in STAGES : stage_scores'[st].total = 0 /\ stage_scores'[st].correct = 0
            /\ current_task_index' = 0 /\ current_task' = task_queue'[1]
            /\ task_queue' = BuildTasks(assets, task_mode',
                    rng_memo'[<<RngSeed([Self EXCEPT !.subject_id = subject_id',
                                                     !.experiment_name = assets.experiment_name]),
                                task_mode'>>])
            /\ \A i \in DOMAIN task_queue' :
                    task_queue'[i].kind \notin {"step2_where", "step2_spatial"}
            /\ session_id' # session_id
            /\ \A i \in DOMAIN saved : saved[i].session_id # session_id']_vars
    /\ [][Len(saved') = Len(saved) + 1 =>
            /\ saved'[Len(saved')].session_id = session_id
            /\ saved'[Len(saved')].tasks = records'
            /\ Len(records') <= shown']_vars
    /\ [](running =>
            \A field \in {<<"7">>, <<"8">>}, mode \in TaskModes :
                OnStart(Self, field, mode, <<>>, Calm) = Self)

\* a second session has started after a first one in which the follow-ups
\* of an object were inserted and a record was saved
C40_Witness ==
    /\ running /\ session_id = 2 /\ records = <<>> /\ current_task_index = 0
    /\ Len(saved) = 1 /\ Len(saved[1].tasks) = 1
    /\ saved[1].tasks[1].kind = "step1" /\ saved[1].tasks[1].response = "yes"
    /\ stage_scores["I"].total = 0

====
